---- MODULE Spec2Model ----
(***************************************************************************)
(* The listing-draft pipeline of the ListingGenerator component            *)
(* (src/components/ListingGenerator.tsx, second component of the file),    *)
(* the history store it writes (src/services/databaseService.ts) and the   *)
(* collaborators it awaits.                                                *)
(*                                                                         *)
(* A JavaScript string is a sequence of atoms (TLA+ strings): an atom is   *)
(* one character or one fixed piece of literal text.  A value that may be  *)
(* `undefined` is a record [def, val]; a value that may be `null` is a     *)
(* sequence of length 0 (null) or 1.                                       *)
(***************************************************************************)
EXTENDS Integers, Sequences, FiniteSets, TLC

\* ------------------------------------------------------------------ bounds
\* keystrokes of the user in the editable fields
MaxEdits == 1
\* entries in history beyond which the user no longer presses "Save Edited Listing"
MaxHistory == 2
\* renders with changed props after the first render (each can start a run)
MaxRenders == 1

\* ------------------------------------------------------------- JS strings
Undefined == [def |-> FALSE, val |-> <<>>]

Defined(s) == [def |-> TRUE, val |-> s]

\* truthiness of a string
Truthy(s) == s # <<>>

\* truthiness of a string that may be undefined
TruthyOpt(k) == k.def /\ k.val # <<>>

WhiteSpace == {" ", "\n", "\t"}

RECURSIVE TrimStart(_)
TrimStart(s) ==
  IF s # <<>> /\ Head(s) \in WhiteSpace THEN TrimStart(Tail(s)) ELSE s

RECURSIVE TrimEnd(_)
TrimEnd(s) ==
  IF s # <<>> /\ s[Len(s)] \in WhiteSpace
    THEN TrimEnd(SubSeq(s, 1, Len(s) - 1))
    ELSE s

\* String.prototype.trim
Trim(s) == TrimEnd(TrimStart(s))

\* index of the first occurrence of atom a in s, 0 when there is none
IndexOf(s, a) ==
  IF \E i \in 1..Len(s) : s[i] = a
    THEN CHOOSE i \in 1..Len(s) : s[i] = a /\ \A j \in 1..(i - 1) : s[j] # a
    ELSE 0

\* s.replace(a, r) with a string pattern: the first occurrence only
ReplaceFirst(s, a, r) ==
  LET i == IndexOf(s, a)
  IN IF i = 0 THEN s
     ELSE SubSeq(s, 1, i - 1) \o r \o SubSeq(s, i + 1, Len(s))

\* s.split('\n')[0]
FirstLine(s) ==
  LET i == IndexOf(s, "\n")
  IN IF i = 0 THEN s ELSE SubSeq(s, 1, i - 1)

\* s.split('\n').slice(1).join('\n')
RestLines(s) ==
  LET i == IndexOf(s, "\n")
  IN IF i = 0 THEN <<>> ELSE SubSeq(s, i + 1, Len(s))

\* a.join(sep)
RECURSIVE Join(_, _)
Join(a, sep) ==
  IF a = <<>> THEN <<>>
  ELSE IF Len(a) = 1 THEN a[1]
  ELSE a[1] \o sep \o Join(Tail(a), sep)

\* ------------------------------------------------------------ input values
NA == <<"N/A">>

ItemDescriptions == { <<>>, <<"camera">>, <<"Item:", " ", "lens", "\n", "boxed">> }

ItemCategories == { <<>>, <<"Cameras">> }

ImageUrls == { <<"blob:1">>, <<"blob:2">> }

EbayAppIds == { Undefined, Defined(<<"app-id">>) }

ChatGptApiKeys == { Undefined, Defined(<<>>), Defined(<<" ">>), Defined(<<"sk">>) }

PropsSpace ==
  [ itemDescription : ItemDescriptions,
    itemCategory    : ItemCategories,
    imageUrl        : ImageUrls,
    ebayAppId       : EbayAppIds,
    chatGptApiKey   : ChatGptApiKeys ]

\* the props of the first render: no credentials saved yet, an item
\* identified or not
InitialProps ==
  { p \in PropsSpace :
      /\ p.itemDescription \in { <<>>, <<"camera">> }
      /\ p.itemCategory = <<"Cameras">>
      /\ p.imageUrl = <<"blob:1">>
      /\ p.ebayAppId = Undefined
      /\ p.chatGptApiKey = Undefined }

\* the props of the one render when the props do not change: an item
\* identified, the drafting credential saved or not
InitialPropsEdit ==
  { p \in PropsSpace :
      /\ p.itemDescription = <<"camera">>
      /\ p.itemCategory = <<"Cameras">>
      /\ p.imageUrl = <<"blob:1">>
      /\ p.ebayAppId = Undefined
      /\ p.chatGptApiKey \in { Undefined, Defined(<<"sk">>) } }

\* the props a render can follow p with: one of them has changed
NextProps(p) ==
  { q \in PropsSpace :
      Cardinality({ k \in DOMAIN p : q[k] # p[k] }) = 1 }

\* ------------------------------------------- grounding (market research)
\* What geminiService.fetchEbayGroundingData resolves with: the fields its
\* extraction found in the response text, "N/A" and [] for those it did not.
GroundingResults ==
  { [ priceRange          |-> NA,
      conditionSummary    |-> NA,
      keywords            |-> <<>>,
      marketTitlePatterns |-> <<>>,
      groundingSources    |-> <<>> ],
    [ priceRange          |-> <<"$50 - $100">>,
      conditionSummary    |-> <<"Used">>,
      keywords            |-> << <<"rare">>, <<"mint">> >>,
      marketTitlePatterns |-> << <<"Vintage ", "{ITEM}", " Rare!">> >>,
      groundingSources    |-> << [type |-> "googleSearch", uri |-> <<"https://e.bay/1">>, title |-> <<"sold">>] >> ] }

\* ----------------------------------------------- marketplace search (mock)
conditions == { <<"Used">>, <<"New">> }

\* const useAdvancedMocks = ebayAppId && ebayAppId.trim() !== ''
useAdvancedMocks(ebayAppId) == TruthyOpt(ebayAppId) /\ Trim(ebayAppId.val) # <<>>

GenericListing(query) ==
  [ itemId    |-> <<"gen_9999">>,
    title     |-> <<"Generic item similar to \"">> \o query \o <<"\"">>,
    price     |-> <<"US $49.99">>,
    condition |-> <<"Used">>,
    soldDate  |-> <<"2024-01-01">> ]

\* One of the three generated listings.  Its title, price and date are drawn
\* at random by the mock from the hints; the pipeline never reads them, and
\* they are kept here as the hints they were drawn from.
MockListing(i, query, marketPriceRange, marketKeywords, marketTitlePatterns, randomCondition) ==
  [ itemId    |-> <<"mock_", ToString(i)>>,
    title     |-> Join(marketKeywords, <<" ">>) \o <<" ">> \o query,
    price     |-> <<"US $">> \o marketPriceRange,
    condition |-> randomCondition,
    soldDate  |-> <<"last 30 days">> ]

\* What ebayService.fetchSoldListings resolves with.  It has no failure path.
FetchSoldListingsResults(query, ebayAppId, marketPriceRange, marketKeywords, marketTitlePatterns) ==
  IF ~useAdvancedMocks(ebayAppId)
    THEN { << GenericListing(query) >> }
    ELSE { [ i \in 1..3 |-> MockListing(i, query, marketPriceRange, marketKeywords,
                                        marketTitlePatterns, c) ] : c \in conditions }

\* ------------------------------------------------------------- the drafts
\* new Date().toLocaleString()
GeneratedDate == <<"date">>

\* the condition without the trim: if (chatGptApiKey)
HasDraftingCredentialNoTrim(chatGptApiKey) == TruthyOpt(chatGptApiKey)

\* if (chatGptApiKey && chatGptApiKey.trim() !== '')
HasDraftingCredential(chatGptApiKey) ==
  TruthyOpt(chatGptApiKey) /\ Trim(chatGptApiKey.val) # <<>>

\* itemDescription.split('\n')[0].replace('Item:', '').trim()
primaryItemDescription(itemDescription) ==
  Trim(ReplaceFirst(FirstLine(itemDescription), "Item:", <<>>))

\* itemDescription.split('\n').slice(1).join('\n').trim()
additionalDetails(itemDescription) == Trim(RestLines(itemDescription))

\* the title of the fallback draft; pick is the index Math.random() selects
defaultTitle(itemDescription, marketData, pick) ==
  IF Len(marketData.marketTitlePatterns) > 0
    THEN ReplaceFirst(marketData.marketTitlePatterns[pick], "{ITEM}",
                      primaryItemDescription(itemDescription))
    ELSE primaryItemDescription(itemDescription) \o <<" - ">>
           \o marketData.conditionSummary \o <<" - Rare Find!">>

\* a description that leaves the keywords out
defaultDescriptionNoKeywords(itemDescription, marketData) ==
  <<"This is a highly sought-after ">> \o primaryItemDescription(itemDescription) \o <<". ">>
    \o (IF Truthy(additionalDetails(itemDescription))
          THEN <<"It features: ">> \o additionalDetails(itemDescription) \o <<".">>
          ELSE <<>>)
    \o <<" Based on recent market analysis, similar items have sold for ">>
    \o marketData.priceRange \o <<" in ">> \o marketData.conditionSummary
    \o <<" condition. This particular piece is perfect for collectors or enthusiasts.">>
    \o <<" A truly unique opportunity!">>

defaultDescription(itemDescription, marketData) ==
  <<"This is a highly sought-after ">> \o primaryItemDescription(itemDescription) \o <<". ">>
    \o (IF Truthy(additionalDetails(itemDescription))
          THEN <<"It features: ">> \o additionalDetails(itemDescription) \o <<".">>
          ELSE <<>>)
    \o <<" Based on recent market analysis, similar items have sold for ">>
    \o marketData.priceRange \o <<" in ">> \o marketData.conditionSummary
    \o <<" condition. This particular piece is perfect for collectors or enthusiasts. Key selling points include: ">>
    \o Join(marketData.keywords, <<", ">>) \o <<". A truly unique opportunity!">>

\* the draft built without the drafting backend
FallbackDraft(p, marketData, listings, pick) ==
  [ itemDescription     |-> defaultDescription(p.itemDescription, marketData),
    suggestedTitle      |-> defaultTitle(p.itemDescription, marketData, pick),
    suggestedCategory   |-> p.itemCategory,
    suggestedPriceRange |-> marketData.priceRange,
    suggestedCondition  |-> marketData.conditionSummary,
    exampleSoldListings |-> Defined(listings),
    generatedDate       |-> GeneratedDate,
    imageUrl            |-> p.imageUrl,
    groundingSources    |-> marketData.groundingSources ]

\* the indices Math.floor(Math.random() * patterns.length) can give
TitlePicks(marketData) ==
  IF Len(marketData.marketTitlePatterns) > 0
    THEN 1..Len(marketData.marketTitlePatterns)
    ELSE {1}

\* What chatGptService.generateListingDraft resolves with when it does not
\* fail: a draft with every required field present.
GenerateListingDraftResults(p, marketData, listings) ==
  { [ itemDescription     |-> <<"Drafted description of ">> \o p.itemDescription,
      suggestedTitle      |-> <<"Drafted title of ">> \o p.itemDescription,
      suggestedCategory   |-> p.itemCategory,
      suggestedPriceRange |-> marketData.priceRange,
      suggestedCondition  |-> marketData.conditionSummary,
      exampleSoldListings |-> Defined(listings),
      generatedDate       |-> GeneratedDate,
      imageUrl            |-> p.imageUrl,
      groundingSources    |-> marketData.groundingSources ] }

\* ------------------------------------------------------ the history store
\* loadListings: storedListings ? JSON.parse(storedListings) : []
\* (stored is null, <<>>, or the one array last written under the key)
loadListings(stored) == IF stored = <<>> THEN <<>> ELSE stored[1]

\* a store that adds at the end (push instead of unshift)
saveListingAppends(stored, listing, setItemThrows) ==
  IF setItemThrows THEN stored
  ELSE << loadListings(stored) \o <<listing>> >>

\* a store that overwrites its newest entry instead of adding one
saveListingInPlace(stored, listing, setItemThrows) ==
  IF setItemThrows THEN stored
  ELSE IF loadListings(stored) = <<>> THEN << <<listing>> >>
  ELSE << <<listing>> \o Tail(loadListings(stored)) >>

\* saveListing: the value under the key after the call.  setItemThrows says
\* whether localStorage.setItem throws (quota): the catch only logs it.
saveListing(stored, listing, setItemThrows) ==
  IF setItemThrows THEN stored
  ELSE << <<listing>> \o loadListings(stored) >>

\* a clear that removes another key (the credentials')
clearListingsOtherKey(stored) == stored

\* clearListings: localStorage.removeItem(LISTINGS_STORAGE_KEY)
clearListings(stored) == <<>>

\* ---------------------------------------------------------------- state
VARIABLES
  props,          \* the props of the current render
  rendered,       \* whether the first render's effect has run
  state,          \* the component's useState cells
  runs,           \* the invocations of generateListing, oldest first
  currentListing, \* App's cell, set by onListingGenerated (null: <<>>)
  emitted,        \* the calls of onListingGenerated so far: [run, draft]
  storedListings, \* localStorage['generated_listings'] (absent: <<>>)
  nEdits,         \* keystrokes so far
  nRenders,       \* renders with changed props so far
  storedKeys,     \* localStorage['api_keys'] (absent: <<>>)
  lastCall        \* the last call of a service function made on its own:
                  \* its name, argument and result

vars == << props, rendered, state, runs, currentListing, emitted, storedListings,
           nEdits, nRenders, storedKeys, lastCall >>

\* a call of a service function: whether storage threw in it, and what it
\* returned
ServiceCall(fn, arg, threw, result) ==
  [fn |-> fn, arg |-> arg, threw |-> threw, result |-> result]

NoCall == ServiceCall("none", <<>>, FALSE, <<>>)

\* the argument of a service call that is about to be made
PendingCall(arg) == ServiceCall("pending", arg, FALSE, <<>>)

Pending == {"grounding", "soldListings", "chatGpt"}

Ended == {"done", "failed"}

\* the useState initial values.  The cells that are only displayed
\* (soldListings and the five grounding cells) are written by the run and
\* read by no handler; they are left out.
InitialState ==
  [ generatedDraft        |-> <<>>,
    isLoadingGrounding    |-> FALSE,
    isLoadingSoldListings |-> FALSE,
    isLoadingChatGpt      |-> FALSE,
    error                 |-> <<>>,
    editableTitle         |-> <<>>,
    editableDescription   |-> <<>>,
    editableCategory      |-> <<>>,
    editablePriceRange    |-> <<>>,
    editableCondition     |-> <<>> ]

Init ==
  /\ props \in InitialProps
  /\ rendered = FALSE
  /\ state = InitialState
  /\ runs = <<>>
  /\ currentListing = <<>>
  /\ emitted = <<>>
  /\ storedListings = <<>>
  /\ nEdits = 0
  /\ nRenders = 0
  /\ storedKeys = <<>>
  /\ lastCall = NoCall

\* --------------------------------------------------------- the trigger
\* a dependency array that lists the identification only
EffectDepsIdentification(p) == << p.itemDescription, p.itemCategory >>

\* the dependency array of the effect
EffectDeps(p) == << p.itemDescription, p.itemCategory, p.ebayAppId, p.chatGptApiKey >>

\* if (itemDescription && itemCategory)
EffectGuard(p) == Truthy(p.itemDescription) /\ Truthy(p.itemCategory)

\* a call of a collaborator, as the run's log keeps it
Call(fn, query, hints) == [fn |-> fn, query |-> query, hints |-> hints, outcome |-> "pending"]

\* generateListing up to its first await: the resets, then the grounding call
BeginState(st) ==
  [ st EXCEPT !.isLoadingGrounding    = TRUE,
              !.isLoadingSoldListings = FALSE,
              !.isLoadingChatGpt      = FALSE,
              !.error                 = <<>>,
              !.generatedDraft        = <<>> ]

NewRun(p) ==
  [ pc         |-> "grounding",
    p          |-> p,
    marketData |-> <<>>,
    listings   |-> <<>>,
    draft      |-> <<>>,
    calls      |-> << Call("fetchEbayGroundingData", p.itemDescription, <<>>) >>,
    emits      |-> 0,
    saves      |-> 0,
    rapid      |-> \A i \in 1..Len(runs) : runs[i].pc = "grounding" ]

generateListing(p) ==
  /\ state' = BeginState(state)
  /\ runs' = Append(runs, NewRun(p))

\* the effect of the first render
Mount ==
  /\ ~rendered
  /\ rendered' = TRUE
  /\ IF EffectGuard(props)
       THEN generateListing(props)
       ELSE UNCHANGED << state, runs >>
  /\ UNCHANGED << props, currentListing, emitted, storedListings,
                 nEdits, nRenders, storedKeys, lastCall >>

\* a render with new props, and its effect when a dependency changed
SetProps(p) ==
  /\ rendered
  /\ nRenders < MaxRenders
  /\ nRenders' = nRenders + 1
  /\ props' = p
  /\ IF EffectDeps(p) # EffectDeps(props) /\ EffectGuard(p)
       THEN generateListing(p)
       ELSE UNCHANGED << state, runs >>
  /\ UNCHANGED << rendered, currentListing, emitted, storedListings, nEdits, storedKeys, lastCall >>

\* ------------------------------------------------ the stages of one run
\* the run's last call has settled
Settle(calls, outcome) == [ calls EXCEPT ![Len(calls)].outcome = outcome ]

\* the hints a search gets that does not read the run's market data: the
\* parameters' defaults
SearchHintsDefaults(marketData) ==
  [ marketPriceRange    |-> <<"N/A">>,
    marketKeywords      |-> <<>>,
    marketTitlePatterns |-> <<>> ]

\* the arguments fetchSoldListings gets besides the query and the app id
SearchHints(marketData) ==
  [ marketPriceRange    |-> marketData.priceRange,
    marketKeywords      |-> marketData.keywords,
    marketTitlePatterns |-> marketData.marketTitlePatterns ]

\* a catch that only logs: the flags are cleared, no error is set
CaughtNoError(st, message) ==
  [ st EXCEPT !.isLoadingGrounding    = FALSE,
              !.isLoadingSoldListings = FALSE,
              !.isLoadingChatGpt      = FALSE ]

\* a catch without the finally block: the flags stay as they were
CaughtKeepsFlags(st, message) ==
  [ st EXCEPT !.error = <<"Listing generation error: ">> \o message ]

\* catch: setError(`Listing generation error: ${err.message}`); finally: the
\* three flags are cleared
Caught(st, message) ==
  [ st EXCEPT !.error                 = <<"Listing generation error: ">> \o message,
              !.isLoadingGrounding    = FALSE,
              !.isLoadingSoldListings = FALSE,
              !.isLoadingChatGpt      = FALSE ]

\* setGeneratedDraft and the editable fields, then finally
Drafted(st, draft) ==
  [ st EXCEPT !.generatedDraft        = <<draft>>,
              !.editableTitle         = draft.suggestedTitle,
              !.editableDescription   = draft.itemDescription,
              !.editableCategory      = draft.suggestedCategory,
              !.editablePriceRange    = draft.suggestedPriceRange,
              !.editableCondition     = draft.suggestedCondition,
              !.isLoadingGrounding    = FALSE,
              !.isLoadingSoldListings = FALSE,
              !.isLoadingChatGpt      = FALSE ]

\* a completion whose save raises when the storage throws: the draft is
\* shown and handed over, then the catch reports the error and the run fails
CompleteFailsWhenSaveThrows(r, st, listings, draft, setItemThrows) ==
  /\ state' = IF setItemThrows
                THEN [ Drafted(st, draft) EXCEPT
                         !.error = <<"Listing generation error: ", "QuotaExceededError">> ]
                ELSE Drafted(st, draft)
  /\ currentListing' = <<draft>>
  /\ emitted' = Append(emitted, [run |-> r, draft |-> draft])
  /\ storedListings' = saveListing(storedListings, draft, setItemThrows)
  /\ runs' = [ runs EXCEPT ![r].pc       = IF setItemThrows THEN "failed" ELSE "done",
                           ![r].listings = <<listings>>,
                           ![r].draft    = <<draft>>,
                           ![r].calls    = Settle(runs[r].calls, "ok"),
                           ![r].emits    = @ + 1,
                           ![r].saves    = IF setItemThrows THEN @ ELSE @ + 1 ]

\* lines 312-322 and the finally block: the draft is shown, handed to
\* onListingGenerated and saved
Complete(r, st, listings, draft, setItemThrows) ==
  /\ state' = Drafted(st, draft)
  /\ currentListing' = <<draft>>
  /\ emitted' = Append(emitted, [run |-> r, draft |-> draft])
  /\ storedListings' = saveListing(storedListings, draft, setItemThrows)
  /\ runs' = [ runs EXCEPT ![r].pc       = "done",
                           ![r].listings = <<listings>>,
                           ![r].draft    = <<draft>>,
                           ![r].calls    = Settle(runs[r].calls, "ok"),
                           ![r].emits    = @ + 1,
                           ![r].saves    = IF setItemThrows THEN @ ELSE @ + 1 ]

\* the run fails: catch and finally
Fail(r, message) ==
  /\ state' = Caught(state, message)
  /\ runs' = [ runs EXCEPT ![r].pc    = "failed",
                           ![r].calls = Settle(runs[r].calls, "failed") ]
  /\ UNCHANGED << currentListing, emitted, storedListings >>

\* the grounding call returns: lines 251-267
GroundingResolved(r, marketData) ==
  /\ runs[r].pc = "grounding"
  /\ state' = [ state EXCEPT !.isLoadingGrounding    = FALSE,
                             !.isLoadingSoldListings = TRUE ]
  /\ runs' = [ runs EXCEPT ![r].pc         = "soldListings",
                           ![r].marketData = <<marketData>>,
                           ![r].calls      = Append(Settle(@, "ok"),
                                               Call("fetchSoldListings", runs[r].p.itemDescription,
                                                    << SearchHints(marketData) >>)) ]
  /\ UNCHANGED << props, rendered, currentListing, emitted, storedListings,
                 nEdits, nRenders, storedKeys, lastCall >>

\* the grounding call throws (the request fails, or the response has no text)
GroundingRejected(r) ==
  /\ runs[r].pc = "grounding"
  /\ Fail(r, <<"Error fetching market data: ">>)
  /\ UNCHANGED << props, rendered, nEdits, nRenders, storedKeys, lastCall >>

\* the marketplace search returns and the drafting credential is present:
\* lines 268-287
SoldListingsResolvedDraft(r, listings) ==
  /\ runs[r].pc = "soldListings"
  /\ HasDraftingCredential(runs[r].p.chatGptApiKey)
  /\ state' = [ state EXCEPT !.isLoadingSoldListings = FALSE,
                             !.isLoadingChatGpt      = TRUE ]
  /\ runs' = [ runs EXCEPT ![r].pc       = "chatGpt",
                           ![r].listings = <<listings>>,
                           ![r].calls    = Append(Settle(@, "ok"),
                                             Call("generateListingDraft", runs[r].p.itemDescription,
                                                  runs[r].marketData)) ]
  /\ UNCHANGED << props, rendered, currentListing, emitted, storedListings,
                 nEdits, nRenders, storedKeys, lastCall >>

\* the marketplace search returns and there is no drafting credential:
\* lines 268-271, 288-322
SoldListingsResolvedFallback(r, listings, pick, setItemThrows) ==
  /\ runs[r].pc = "soldListings"
  /\ ~HasDraftingCredential(runs[r].p.chatGptApiKey)
  /\ Complete(r, state, listings,
              FallbackDraft(runs[r].p, runs[r].marketData[1], listings, pick), setItemThrows)
  /\ UNCHANGED << props, rendered, nEdits, nRenders, storedKeys, lastCall >>

\* the drafting call returns: lines 276-287, 312-322
ChatGptResolved(r, draft, setItemThrows) ==
  /\ runs[r].pc = "chatGpt"
  /\ Complete(r, state, runs[r].listings[1], draft, setItemThrows)
  /\ UNCHANGED << props, rendered, nEdits, nRenders, storedKeys, lastCall >>

\* a drafting failure answered with the fallback draft instead of an error
ChatGptRejectedFallsBack(r) ==
  /\ runs[r].pc = "chatGpt"
  /\ LET draft == FallbackDraft(runs[r].p, runs[r].marketData[1], runs[r].listings[1], 1)
     IN /\ state' = Drafted(state, draft)
        /\ currentListing' = <<draft>>
        /\ emitted' = Append(emitted, [run |-> r, draft |-> draft])
        /\ storedListings' = saveListing(storedListings, draft, FALSE)
        /\ runs' = [ runs EXCEPT ![r].pc    = "done",
                                 ![r].draft = <<draft>>,
                                 ![r].calls = Settle(runs[r].calls, "failed"),
                                 ![r].emits = @ + 1,
                                 ![r].saves = @ + 1 ]
  /\ UNCHANGED << props, rendered, nEdits, nRenders, storedKeys, lastCall >>

\* the drafting call throws
ChatGptRejected(r) ==
  /\ runs[r].pc = "chatGpt"
  /\ Fail(r, <<"DraftingError">>)
  /\ UNCHANGED << props, rendered, nEdits, nRenders, storedKeys, lastCall >>

\* ------------------------------------------------------- the user's edits
EditableFields ==
  { "editableTitle", "editableDescription", "editableCategory",
    "editablePriceRange", "editableCondition" }

EditValues == { <<>>, <<"edited">> }

\* onChange of one of the five inputs, shown while there is a draft
setEditable(field, value) ==
  /\ state.generatedDraft # <<>>
  /\ nEdits < MaxEdits
  /\ state[field] # value
  /\ state' = [ state EXCEPT ![field] = value ]
  /\ nEdits' = nEdits + 1
  /\ UNCHANGED << props, rendered, runs, currentListing, emitted, storedListings,
                 nRenders, storedKeys, lastCall >>

\* the listing handleSaveEditedListing builds from the draft and the inputs
updatedListing(st) ==
  [ st.generatedDraft[1] EXCEPT !.suggestedTitle      = st.editableTitle,
                                !.itemDescription     = st.editableDescription,
                                !.suggestedCategory   = st.editableCategory,
                                !.suggestedPriceRange = st.editablePriceRange,
                                !.suggestedCondition  = st.editableCondition ]

handleSaveEditedListing(setItemThrows) ==
  /\ state.generatedDraft # <<>>
  /\ Len(loadListings(storedListings)) < MaxHistory
  /\ storedListings' = saveListing(storedListings, updatedListing(state), setItemThrows)
  /\ state' = [ state EXCEPT !.generatedDraft = << updatedListing(state) >> ]
  /\ UNCHANGED << props, rendered, runs, currentListing, emitted,
                 nEdits, nRenders, storedKeys, lastCall >>

\* "Clear History" of the history modal, shown while it lists entries
handleClearHistory ==
  /\ loadListings(storedListings) # <<>>
  /\ storedListings' = clearListings(storedListings)
  /\ UNCHANGED << props, rendered, state, runs, currentListing, emitted,
                 nEdits, nRenders, storedKeys, lastCall >>

\* ------------------------------------------------------ the specification
\* a stage of some run completes
Stage ==
  \/ \E r \in 1..Len(runs), marketData \in GroundingResults : GroundingResolved(r, marketData)
  \/ \E r \in 1..Len(runs) : GroundingRejected(r)
  \/ \E r \in 1..Len(runs) :
       /\ runs[r].pc = "soldListings"
       /\ \E listings \in FetchSoldListingsResults(
               runs[r].p.itemDescription, runs[r].p.ebayAppId,
               SearchHints(runs[r].marketData[1]).marketPriceRange,
               SearchHints(runs[r].marketData[1]).marketKeywords,
               SearchHints(runs[r].marketData[1]).marketTitlePatterns) :
            \/ SoldListingsResolvedDraft(r, listings)
            \/ \E pick \in TitlePicks(runs[r].marketData[1]), setItemThrows \in BOOLEAN :
                 SoldListingsResolvedFallback(r, listings, pick, setItemThrows)
  \/ \E r \in 1..Len(runs) :
       /\ runs[r].pc = "chatGpt"
       /\ \E draft \in GenerateListingDraftResults(runs[r].p, runs[r].marketData[1],
                                                    runs[r].listings[1]),
             setItemThrows \in BOOLEAN :
            ChatGptResolved(r, draft, setItemThrows)
  \/ \E r \in 1..Len(runs) : ChatGptRejected(r)

\* The pipeline: the renders trigger runs, and the runs interleave.
Next ==
  \/ Mount
  \/ \E p \in NextProps(props) : SetProps(p)
  \/ Stage

Spec == Init /\ [][Next]_vars

\* The draft and the history: one identification, whose run the user lets
\* finish, then edits, saves and clears.
InitEdit ==
  /\ props \in InitialPropsEdit
  /\ rendered = FALSE
  /\ state = InitialState
  /\ runs = <<>>
  /\ currentListing = <<>>
  /\ emitted = <<>>
  /\ storedListings = <<>>
  /\ nEdits = 0
  /\ nRenders = 0
  /\ storedKeys = <<>>
  /\ lastCall = NoCall

NextEdit ==
  \/ Mount
  \/ Stage
  \/ \E field \in EditableFields, value \in EditValues : setEditable(field, value)
  \/ \E setItemThrows \in BOOLEAN : handleSaveEditedListing(setItemThrows)
  \/ handleClearHistory

SpecEdit == InitEdit /\ [][NextEdit]_vars

\* ------------------------------------------- the history store on its own
\* the cells of the component and of App, which the services do not touch
component == << props, rendered, state, runs, currentListing, emitted, nEdits, nRenders >>

Unmounted ==
  /\ props \in { p \in InitialPropsEdit : p.chatGptApiKey = Undefined }
  /\ rendered = FALSE
  /\ state = InitialState
  /\ runs = <<>>
  /\ currentListing = <<>>
  /\ emitted = <<>>
  /\ nEdits = 0
  /\ nRenders = 0

\* the drafts the callers save
StoreDrafts ==
  { FallbackDraft(p, marketData, << GenericListing(p.itemDescription) >>, 1) :
      p \in { q \in PropsSpace : /\ q.itemDescription # <<>>
                                 /\ q.itemCategory # <<>>
                                 /\ q.ebayAppId = Undefined
                                 /\ q.chatGptApiKey = Undefined },
      marketData \in GroundingResults }

\* databaseService.saveListing(listing)
StoreSave(listing, setItemThrows) ==
  /\ Len(loadListings(storedListings)) < MaxHistory
  /\ storedListings' = saveListing(storedListings, listing, setItemThrows)
  /\ lastCall' = ServiceCall("saveListing", <<listing>>, setItemThrows, <<>>)
  /\ UNCHANGED << component, storedKeys >>

\* databaseService.loadListings()
StoreLoad ==
  /\ lastCall' = ServiceCall("loadListings", <<>>, FALSE, loadListings(storedListings))
  /\ UNCHANGED << component, storedListings, storedKeys >>

\* databaseService.clearListings(), called from the history modal when it
\* lists entries
StoreClear ==
  /\ loadListings(storedListings) # <<>>
  /\ storedListings' = clearListings(storedListings)
  /\ lastCall' = ServiceCall("clearListings", <<>>, FALSE, <<>>)
  /\ UNCHANGED << component, storedKeys >>

InitStore ==
  /\ Unmounted
  /\ storedListings = <<>>
  /\ storedKeys = <<>>
  /\ lastCall = NoCall

NextStore ==
  \/ \E listing \in StoreDrafts, setItemThrows \in BOOLEAN : StoreSave(listing, setItemThrows)
  \/ StoreLoad
  \/ StoreClear

\* The callers of the history store, in any order.
SpecStore == InitStore /\ [][NextStore]_vars

\* ---------------------------------------------- the stored credentials
\* A JavaScript value as JSON.parse gives it: its type, the text of a
\* string, and the properties of an object (a function from the names of the
\* properties present to their values).
JString(text) == [type |-> "string", val |-> text, fields |-> <<>>]

JPrimitive(type) == [type |-> type, val |-> <<>>, fields |-> <<>>]

JObject(fields) == [type |-> "object", val |-> <<>>, fields |-> fields]

\* the fields of ApiKeys, and the field older versions stored
ApiKeyFields == { "chatGptApiKey", "ebayAppId", "ebayClientSecret", "ebayOAuthToken" }

LegacyField == "ebayApiKey"

\* the texts a field holds
KeyTexts == { <<>>, <<"key">> }

\* the objects with some of the fields, each a string
KeyObjects(names) ==
  UNION { { JObject(f) : f \in [ present -> { JString(t) : t \in KeyTexts } ] } :
            present \in SUBSET names }

\* What localStorage['api_keys'] can hold: nothing (<<>>), or one text: the
\* empty text, a text that is not JSON, or the JSON text of a value.
StoredKeyTexts ==
  { <<>>, << [json |-> "empty"] >>, << [json |-> "invalid"] >> }
    \cup { << [json |-> "value", value |-> v] >> :
             v \in KeyObjects(ApiKeyFields \cup {LegacyField})
                     \cup { JPrimitive("null"), JPrimitive("number"), JPrimitive("boolean"),
                            JPrimitive("array"), JString(<<"key">>) } }

\* { chatGptApiKey: '', ebayAppId: '' }
DefaultApiKeys ==
  JObject([ k \in {"chatGptApiKey", "ebayAppId"} |-> JString(<<>>) ])

\* value[name] === undefined, for a value that is not null
IsUndefinedField(value, name) ==
  value.type # "object" \/ name \notin DOMAIN value.fields

\* a migration that copies the legacy field and leaves it in place
MigrateLegacyKeepsField(parsedKeys) ==
  IF ~IsUndefinedField(parsedKeys, LegacyField) /\ IsUndefinedField(parsedKeys, "ebayAppId")
    THEN JObject([ k \in DOMAIN parsedKeys.fields \cup {"ebayAppId"} |->
                     IF k = "ebayAppId" THEN parsedKeys.fields[LegacyField]
                     ELSE parsedKeys.fields[k] ])
    ELSE parsedKeys

\* lines 21-24: the legacy field becomes ebayAppId when there is none
MigrateLegacy(parsedKeys) ==
  IF ~IsUndefinedField(parsedKeys, LegacyField) /\ IsUndefinedField(parsedKeys, "ebayAppId")
    THEN JObject([ k \in (DOMAIN parsedKeys.fields \ {LegacyField}) \cup {"ebayAppId"} |->
                     IF k = "ebayAppId" THEN parsedKeys.fields[LegacyField]
                     ELSE parsedKeys.fields[k] ])
    ELSE parsedKeys

\* loadApiKeys: what it returns.  getItemThrows says whether the read of
\* storage throws; JSON.parse throws on a text that is not JSON, and reading
\* a property of null throws: the catch returns the default in all three.
loadApiKeys(stored, getItemThrows) ==
  IF getItemThrows THEN DefaultApiKeys
  ELSE IF stored = <<>> \/ stored[1].json = "empty" THEN MigrateLegacy(DefaultApiKeys)
  ELSE IF stored[1].json = "invalid" THEN DefaultApiKeys
  ELSE IF stored[1].value.type = "null" THEN DefaultApiKeys
  ELSE MigrateLegacy(stored[1].value)

\* saveApiKeys: the value under the key after the call
saveApiKeys(stored, keys, setItemThrows) ==
  IF setItemThrows THEN stored
  ELSE << [json |-> "value", value |-> keys] >>

\* the credential sets the settings forms save: the two fields of the older
\* form, or all four
SavedApiKeys ==
  { k \in KeyObjects(ApiKeyFields) :
      DOMAIN k.fields \in { {"chatGptApiKey", "ebayAppId"}, ApiKeyFields } }

\* databaseService.loadApiKeys()
LoadKeys(getItemThrows) ==
  /\ lastCall' = ServiceCall("loadApiKeys", <<>>, getItemThrows,
                             loadApiKeys(storedKeys, getItemThrows))
  /\ UNCHANGED << component, storedListings, storedKeys >>

\* databaseService.saveApiKeys(keys)
SaveKeys(keys, setItemThrows) ==
  /\ storedKeys' = saveApiKeys(storedKeys, keys, setItemThrows)
  /\ lastCall' = ServiceCall("saveApiKeys", <<keys>>, setItemThrows, <<>>)
  /\ UNCHANGED << component, storedListings >>

\* storage as any version of the application, or anything else, left it
InitKeys ==
  /\ Unmounted
  /\ storedListings = <<>>
  /\ storedKeys \in StoredKeyTexts
  /\ lastCall = NoCall

NextKeys ==
  \/ \E getItemThrows \in BOOLEAN : LoadKeys(getItemThrows)
  \/ \E keys \in SavedApiKeys, setItemThrows \in BOOLEAN : SaveKeys(keys, setItemThrows)

\* The callers of the credential store, in any order.
SpecKeys == InitKeys /\ [][NextKeys]_vars

\* ------------------------------------------------------- parsePriceRange
\* pieces of text in one price-range string
MaxPieces == 3

\* A number is a fraction n / d of naturals; NaN is 0 / 0 and Infinity is
\* 1 / 0.  The arithmetic of the model is exact.
Number(n, d) == [n |-> n, d |-> d]

NaN == Number(0, 0)

Infinity == Number(1, 0)

isNaN(a) == a = NaN

Less(a, b) == a.n * b.d < b.n * a.d

Equal(a, b) == a.n * b.d = b.n * a.d

RECURSIVE GCD(_, _)
GCD(a, b) == IF b = 0 THEN a ELSE GCD(b, a % b)

\* the fraction in lowest terms
Lowest(n, d) == Number(n \div GCD(n, d), d \div GCD(n, d))

Times(a, b) == Lowest(a.n * b.n, a.d * b.d)

Plus(a, b) == Lowest(a.n * b.d + b.n * a.d, a.d * b.d)

Digits == { "0", "1", "2", "3", "4", "5", "6", "7", "8", "9" }

DigitValue(c) ==
  CASE c = "0" -> 0 [] c = "1" -> 1 [] c = "2" -> 2 [] c = "3" -> 3 [] c = "4" -> 4
    [] c = "5" -> 5 [] c = "6" -> 6 [] c = "7" -> 7 [] c = "8" -> 8 [] c = "9" -> 9

RECURSIVE DigitsValue(_)
DigitsValue(s) ==
  IF s = <<>> THEN 0
  ELSE 10 * DigitsValue(SubSeq(s, 1, Len(s) - 1)) + DigitValue(s[Len(s)])

RECURSIVE Pow10(_)
Pow10(k) == IF k = 0 THEN 1 ELSE 10 * Pow10(k - 1)

\* the longest prefix of s made of digits
RECURSIVE LeadingDigits(_)
LeadingDigits(s) ==
  IF s # <<>> /\ s[1] \in Digits THEN <<s[1]>> \o LeadingDigits(Tail(s)) ELSE <<>>

\* parseFloat of a text without sign, exponent or leading blanks: the
\* digits, then a point and the digits after it; NaN when neither has a digit
parseFloat(str) ==
  LET int  == LeadingDigits(str)
      rest == SubSeq(str, Len(int) + 1, Len(str))
      frac == IF rest # <<>> /\ rest[1] = "." THEN LeadingDigits(Tail(rest)) ELSE <<>>
  IN IF int = <<>> /\ frac = <<>> THEN NaN
     ELSE Number(DigitsValue(int \o frac), Pow10(Len(frac)))

\* the class without the thousands separator: [\d\.]
TokenCharsNoComma == Digits \cup { "." }

\* [\d,\.]
TokenChars == Digits \cup { ",", "." }

\* the index of the last character of the run of [\d,\.]* that starts at i
\* (i - 1 when the run is empty)
RECURSIVE TokenEnd(_, _)
TokenEnd(s, i) ==
  IF i <= Len(s) /\ s[i] \in TokenChars THEN TokenEnd(s, i + 1) ELSE i - 1

\* priceRangeString.match(/\$?\d[\d,\.]*/g), scanning from index i
RECURSIVE MatchNumbers(_, _)
MatchNumbers(s, i) ==
  IF i > Len(s) THEN <<>>
  ELSE IF s[i] \in Digits
    THEN << SubSeq(s, i, TokenEnd(s, i + 1)) >> \o MatchNumbers(s, TokenEnd(s, i + 1) + 1)
  ELSE IF s[i] = "$" /\ i + 1 <= Len(s) /\ s[i + 1] \in Digits
    THEN << SubSeq(s, i, TokenEnd(s, i + 2)) >> \o MatchNumbers(s, TokenEnd(s, i + 2) + 1)
  ELSE MatchNumbers(s, i + 1)

\* n.replace(/[^0-9.]/g, '')
StripNonNumeric(n) == SelectSeq(n, LAMBDA c : c \in Digits \cup {"."})

\* .map(n => parseFloat(...)).filter(n => !isNaN(n))
ParsedNumbers(matches) ==
  SelectSeq([ i \in 1..Len(matches) |-> parseFloat(StripNonNumeric(matches[i])) ],
            LAMBDA a : ~isNaN(a))

\* Math.min(...numbers) and Math.max(...numbers), numbers not empty
RECURSIVE MathMin(_)
MathMin(numbers) ==
  IF Len(numbers) = 1 THEN numbers[1]
  ELSE IF Less(numbers[1], MathMin(Tail(numbers))) THEN numbers[1]
  ELSE MathMin(Tail(numbers))

RECURSIVE MathMax(_)
MathMax(numbers) ==
  IF Len(numbers) = 1 THEN numbers[1]
  ELSE IF Less(MathMax(Tail(numbers)), numbers[1]) THEN numbers[1]
  ELSE MathMax(Tail(numbers))

PriceRange(min, max, avg) == [min |-> min, max |-> max, avg |-> avg]

\* a normalizer that takes the first number for the low end and the last
\* for the high end
parsePriceRangeFirstLast(priceRangeString) ==
  LET numbers == ParsedNumbers(MatchNumbers(priceRangeString, 1))
  IN IF Len(numbers) = 0
       THEN PriceRange(Number(30, 1), Number(150, 1), Number(90, 1))
     ELSE IF Len(numbers) = 1
       THEN PriceRange(Times(numbers[1], Number(8, 10)), Times(numbers[1], Number(12, 10)),
                       numbers[1])
     ELSE PriceRange(numbers[1], numbers[Len(numbers)],
                     Times(Plus(numbers[1], numbers[Len(numbers)]), Number(1, 2)))

parsePriceRange(priceRangeString) ==
  LET numbers == ParsedNumbers(MatchNumbers(priceRangeString, 1))
  IN IF Len(numbers) = 0
       THEN PriceRange(Number(30, 1), Number(150, 1), Number(90, 1))
     ELSE IF Len(numbers) = 1
       THEN PriceRange(Times(numbers[1], Number(8, 10)), Times(numbers[1], Number(12, 10)),
                       numbers[1])
     ELSE PriceRange(MathMin(numbers), MathMax(numbers),
                     Times(Plus(MathMin(numbers), MathMax(numbers)), Number(1, 2)))

\* The prices written in the strings, each with the amount it states.
WrittenPrices ==
  { [text |-> <<"5", "0">>,                          amount |-> Number(50, 1)],
    [text |-> <<"$", "1", "0", "0">>,                amount |-> Number(100, 1)],
    [text |-> <<"$", "7", "5", ".", "5", "0">>,      amount |-> Number(755, 10)],
    [text |-> <<"$", "1", ",", "2", "0", "0">>,      amount |-> Number(1200, 1)],
    [text |-> <<"4", "9", ".", "9", "9">>,           amount |-> Number(4999, 100)],
    [text |-> <<"$", "0">>,                          amount |-> Number(0, 1)] }

\* The text between and around the prices of a string.
WrittenWords ==
  { [text |-> <<" ", "-", " ">>,                     amount |-> NaN],
    [text |-> <<"a", "r", "o", "u", "n", "d", " ">>, amount |-> NaN],
    [text |-> <<",", " ">>,                          amount |-> NaN],
    [text |-> <<" ", "U", "S", "D">>,                amount |-> NaN],
    [text |-> <<"$", " ">>,                          amount |-> NaN] }

\* the strings given to parsePriceRange, as the pieces they are written
\* from: prices and words, no two prices next to each other
PriceRangeStrings ==
  { pieces \in UNION { [1..n -> WrittenPrices \cup WrittenWords] : n \in 0..MaxPieces } :
      \A i \in 1..(Len(pieces) - 1) :
        pieces[i] \in WrittenWords \/ pieces[i + 1] \in WrittenWords }

RECURSIVE PiecesText(_)
PiecesText(pieces) ==
  IF pieces = <<>> THEN <<>> ELSE pieces[1].text \o PiecesText(Tail(pieces))

\* parsePriceRange(priceRangeString)
ParsePrice(pieces) ==
  /\ lastCall = PendingCall(pieces)
  /\ lastCall' = ServiceCall("parsePriceRange", pieces, FALSE,
                             parsePriceRange(PiecesText(pieces)))
  /\ UNCHANGED << component, storedListings, storedKeys >>

\* a caller holds a price-range string and has not yet parsed it
InitPrice ==
  /\ Unmounted
  /\ storedListings = <<>>
  /\ storedKeys = <<>>
  /\ \E pieces \in PriceRangeStrings : lastCall = PendingCall(pieces)

NextPrice == \E pieces \in PriceRangeStrings : ParsePrice(pieces)

\* parsePriceRange on the price-range strings.
SpecPrice == InitPrice /\ [][NextPrice]_vars

\* --------------------------------------------------------- getMarketData
\* comparable items in one list
MaxItems == 3

DigitChar(k) == CHOOSE c \in Digits : DigitValue(c) = k

\* the decimal digits of a natural
RECURSIVE IntDigits(_)
IntDigits(n) ==
  IF n < 10 THEN << DigitChar(n) >> ELSE IntDigits(n \div 10) \o << DigitChar(n % 10) >>

\* a.toFixed(2), a finite: the amount rounded to hundredths
toFixed2(a) ==
  LET hundredths == (a.n * 100 + a.d \div 2) \div a.d
  IN IntDigits(hundredths \div 100) \o <<".">>
       \o << DigitChar((hundredths % 100) \div 10), DigitChar(hundredths % 10) >>

\* a fold that takes every price that parses as the largest so far
RECURSIVE PriceBoundsLastIsMax(_, _, _, _)
PriceBoundsLastIsMax(items, i, min, max) ==
  IF i > Len(items) THEN [minPrice |-> min, maxPrice |-> max]
  ELSE LET priceValue == parseFloat(StripNonNumeric(items[i].price))
       IN IF isNaN(priceValue) THEN PriceBoundsLastIsMax(items, i + 1, min, max)
          ELSE PriceBoundsLastIsMax(items, i + 1,
                                    IF Less(priceValue, min) THEN priceValue ELSE min,
                                    priceValue)

\* the forEach of lines 181-193 on the prices: minPrice and maxPrice after
\* the items from index i on, starting from min and max
RECURSIVE PriceBounds(_, _, _, _)
PriceBounds(items, i, min, max) ==
  IF i > Len(items) THEN [minPrice |-> min, maxPrice |-> max]
  ELSE LET priceValue == parseFloat(StripNonNumeric(items[i].price))
       IN IF isNaN(priceValue) THEN PriceBounds(items, i + 1, min, max)
          ELSE PriceBounds(items, i + 1,
                           IF Less(priceValue, min) THEN priceValue ELSE min,
                           IF Less(max, priceValue) THEN priceValue ELSE max)

\* lines 195-197
marketPriceRange(items) ==
  LET b == PriceBounds(items, 1, Infinity, Number(0, 1))
  IN IF b.minPrice = Infinity \/ Equal(b.maxPrice, Number(0, 1)) THEN NA
     ELSE <<"$">> \o toFixed2(b.minPrice) \o <<" ", "-", " ", "$">> \o toFixed2(b.maxPrice)
            \o <<" ", "U", "S", "D">>

\* counts[key] = (counts[key] || 0) + 1 for each key in turn: the keys in
\* the order they were first added, each with its count
RECURSIVE Tally(_)
Tally(keys) ==
  IF keys = <<>> THEN <<>>
  ELSE LET before == Tally(SubSeq(keys, 1, Len(keys) - 1))
           key    == keys[Len(keys)]
       IN IF \E j \in 1..Len(before) : before[j].key = key
            THEN [ j \in 1..Len(before) |->
                     IF before[j].key = key
                       THEN [key |-> key, count |-> before[j].count + 1]
                       ELSE before[j] ]
            ELSE Append(before, [key |-> key, count |-> 1])

\* a property name that is an array index: the decimal digits of a natural,
\* without leading zeros
IsArrayIndex(key) ==
  /\ key # <<>>
  /\ \A j \in 1..Len(key) : key[j] \in Digits
  /\ Len(key) > 1 => key[1] # "0"

\* the entries whose key is the smallest array index first, then the rest
RECURSIVE IndexEntriesAscending(_)
IndexEntriesAscending(entries) ==
  IF entries = <<>> THEN <<>>
  ELSE LET m == CHOOSE j \in 1..Len(entries) :
                  \A k \in 1..Len(entries) :
                    DigitsValue(entries[j].key) <= DigitsValue(entries[k].key)
       IN << entries[m] >>
            \o IndexEntriesAscending(SubSeq(entries, 1, m - 1) \o SubSeq(entries, m + 1, Len(entries)))

\* Object.entries(counts): the array-index keys in ascending numeric order,
\* then the other keys in the order they were added
ObjectEntries(tally) ==
  IndexEntriesAscending(SelectSeq(tally, LAMBDA e : IsArrayIndex(e.key)))
    \o SelectSeq(tally, LAMBDA e : ~IsArrayIndex(e.key))

\* entries.sort(([, countA], [, countB]) => countB - countA): by descending
\* count, entries of equal count in the order they had (the sort is stable)
RECURSIVE SortByCountDescending(_)
SortByCountDescending(entries) ==
  IF entries = <<>> THEN <<>>
  ELSE LET m == CHOOSE j \in 1..Len(entries) :
                  /\ \A k \in 1..Len(entries) : entries[k].count <= entries[j].count
                  /\ \A k \in 1..(j - 1) : entries[k].count < entries[j].count
       IN << entries[m] >>
            \o SortByCountDescending(SubSeq(entries, 1, m - 1) \o SubSeq(entries, m + 1, Len(entries)))

\* lines 190-192 and 199-202
marketConditionSummary(items) ==
  LET conditionKeys == SelectSeq([ i \in 1..Len(items) |-> items[i].condition ], Truthy)
      entries       == ObjectEntries(Tally(conditionKeys))
  IN IF Len(entries) > 0 THEN SortByCountDescending(entries)[1].key ELSE NA

\* title.toLowerCase(), for the letters the titles have
ToLowerCase(c) ==
  CASE c = "R" -> "r" [] c = "L" -> "l" [] c = "F" -> "f" [] c = "T" -> "t" [] OTHER -> c

\* text.split(/\s+/)
RECURSIVE SplitWhiteSpace(_)
SplitWhiteSpace(text) ==
  IF \A j \in 1..Len(text) : text[j] \notin WhiteSpace THEN << text >>
  ELSE LET first == CHOOSE j \in 1..Len(text) :
                      text[j] \in WhiteSpace /\ \A k \in 1..(j - 1) : text[k] \notin WhiteSpace
       IN << SubSeq(text, 1, first - 1) >>
            \o SplitWhiteSpace(TrimStart(SubSeq(text, first, Len(text))))

StopWords ==
  { <<"a">>, <<"a", "n">>, <<"t", "h", "e">>, <<"f", "o", "r">>, <<"a", "n", "d">>,
    <<"w", "i", "t", "h">>, <<"i", "n">>, <<"o", "f">> }

\* a.flatMap(f)
RECURSIVE FlatMapWords(_)
FlatMapWords(titles) ==
  IF titles = <<>> THEN <<>>
  ELSE SplitWhiteSpace([ j \in 1..Len(titles[1]) |-> ToLowerCase(titles[1][j]) ])
         \o FlatMapWords(Tail(titles))

\* lines 205-216
marketKeywords(items) ==
  LET allWords == FlatMapWords([ i \in 1..Len(items) |-> items[i].title ])
      counted  == SelectSeq(allWords, LAMBDA word : Len(word) > 2 /\ word \notin StopWords)
      sorted   == SortByCountDescending(ObjectEntries(Tally(counted)))
  IN [ j \in 1..(IF Len(sorted) < 5 THEN Len(sorted) ELSE 5) |-> sorted[j].key ]

\* an aggregator that answers an empty list with empty texts
getMarketDataBlankWhenEmpty(items) ==
  IF Len(items) = 0
    THEN [ marketPriceRange        |-> <<>>,
           marketConditionSummary  |-> <<>>,
           marketKeywords          |-> <<>> ]
    ELSE [ marketPriceRange        |-> marketPriceRange(items),
           marketConditionSummary  |-> marketConditionSummary(items),
           marketKeywords          |-> marketKeywords(items) ]

getMarketData(items) ==
  IF Len(items) = 0
    THEN [ marketPriceRange        |-> NA,
           marketConditionSummary  |-> NA,
           marketKeywords          |-> <<>> ]
    ELSE [ marketPriceRange        |-> marketPriceRange(items),
           marketConditionSummary  |-> marketConditionSummary(items),
           marketKeywords          |-> marketKeywords(items) ]

MarketItem(title, price, condition) ==
  [title |-> title, price |-> price, condition |-> condition]

\* The comparable items of the lists: titles that share words, prices with
\* and without an amount, conditions as names, as condition ids, and none.
MarketItems ==
  { MarketItem(<<"R", "a", "r", "e", " ", "l", "e", "n", "s">>,
               <<"U", "S", " ", "$", "5", "0">>, <<"U", "s", "e", "d">>),
    MarketItem(<<"t", "h", "e", " ", "L", "e", "n", "s", " ", "5", "0", "m", "m">>,
               <<"U", "S", " ", "$", "1", "5", "0">>, <<"N", "e", "w">>),
    MarketItem(<<"L", "e", "n", "s", " ", "f", "o", "r", " ", "f", "i", "l", "m">>,
               <<"U", "S", " ", "$", "9", "0">>, <<"U", "s", "e", "d">>),
    MarketItem(<<"r", "a", "r", "e", " ", "1", "0", "0", " ", "l", "e", "n", "s">>,
               <<"$", "1", ",", "2", "0", "0", ".", "5", "0">>, <<"3", "0", "0", "0">>),
    MarketItem(<<"F", "i", "l", "m", " ", "1", "0", "0">>,
               <<"U", "S", " ", "$", "0", ".", "0", "0">>, <<"1", "0", "0", "0">>),
    MarketItem(<<"l", "e", "n", "s">>,
               <<"N", "/", "A">>, <<>>),
    MarketItem(<<"F", "r", "e", "e", " ", "f", "i", "l", "m">>,
               <<"F", "r", "e", "e">>, <<"N", "e", "w">>),
    MarketItem(<<"R", "a", "r", "e", " ", "l", "e", "n", "s">>,
               <<"U", "S", " ", "$", "0", ".", "0", "0">>, <<"3", "0", "0", "0">>) }

MarketItemLists == UNION { [1..n -> MarketItems] : n \in 0..MaxItems }

\* ebayService.getMarketData(items)
DeriveMarketData(items) ==
  /\ lastCall = PendingCall(items)
  /\ lastCall' = ServiceCall("getMarketData", items, FALSE, getMarketData(items))
  /\ UNCHANGED << component, storedListings, storedKeys >>

\* a caller holds a list of comparable items and has not yet aggregated it
InitMarket ==
  /\ Unmounted
  /\ storedListings = <<>>
  /\ storedKeys = <<>>
  /\ \E items \in MarketItemLists : lastCall = PendingCall(items)

NextMarket == \E items \in MarketItemLists : DeriveMarketData(items)

\* getMarketData on the lists of comparable items.
SpecMarket == InitMarket /\ [][NextMarket]_vars

\* ------------------------------------------------------ the fallback draft
\* the item descriptions a fallback draft is built from: one line, and the
\* identification's two lines with the label
FallbackDescriptions ==
  { <<"vintage camera">>, <<"Item:", " ", "lens", "\n", "boxed">> }

\* the market data a fallback draft is built from: each field found by the
\* extraction or not, a condition summary of one clause or of two
FallbackMarketData ==
  [ priceRange          : { NA, <<"$50 - $100">> },
    conditionSummary    : { NA, <<"Used">>, <<"Used", ",", " ", "minor wear">>,
                            <<"New", " ", "-", " ", "sealed">> },
    keywords            : { <<>>, << <<"rare">>, <<"mint">> >> },
    marketTitlePatterns : { <<>>,
                            << <<"Vintage ", "{ITEM}", " Rare!">> >>,
                            << <<"Vintage ", "{ITEM}", " Rare!">>, <<"{ITEM}", " - Tested">> >> },
    groundingSources    : { <<>> } ]

\* the comparable items the search returned
FallbackListings ==
  { << MarketItem(<<"G", "e", "n", "e", "r", "i", "c", " ", "i", "t", "e", "m", " ", "s", "i", "m", "i", "l", "a", "r", " ", "t", "o", " ", "\"", "v", "i", "n", "t", "a", "g", "e", " ", "c", "a", "m", "e", "r", "a", "\"">>,
                  <<"U", "S", " ", "$", "4", "9", ".", "9", "9">>, <<"U", "s", "e", "d">>) >>,
    << MarketItem(<<"R", "a", "r", "e", " ", "l", "e", "n", "s">>,
                  <<"U", "S", " ", "$", "5", "0">>, <<"U", "s", "e", "d">>),
       MarketItem(<<"t", "h", "e", " ", "L", "e", "n", "s", " ", "5", "0", "m", "m">>,
                  <<"U", "S", " ", "$", "1", "5", "0">>, <<"N", "e", "w">>) >> }

\* what the else branch of lines 288-310 reads
FallbackInputs ==
  { i \in [ props      : [ itemDescription : FallbackDescriptions,
                           itemCategory    : { <<"Cameras">> },
                           imageUrl        : { <<"blob:1">> },
                           ebayAppId       : { Undefined },
                           chatGptApiKey   : { Undefined } ],
            marketData : FallbackMarketData,
            listings   : FallbackListings,
            pick       : 1..2 ] :
      i.pick \in TitlePicks(i.marketData) }

\* the else branch of lines 288-310
BuildFallbackDraft(input) ==
  /\ lastCall = PendingCall(input)
  /\ lastCall' = ServiceCall("fallbackDraft", input, FALSE,
                             FallbackDraft(input.props, input.marketData,
                                           input.listings, input.pick))
  /\ UNCHANGED << component, storedListings, storedKeys >>

\* a run has its market data and its comparable items and has no drafting
\* credential
InitFallback ==
  /\ Unmounted
  /\ storedListings = <<>>
  /\ storedKeys = <<>>
  /\ \E input \in FallbackInputs : lastCall = PendingCall(input)

NextFallback == \E input \in FallbackInputs : BuildFallbackDraft(input)

\* The fallback draft on the inputs a run can have.
SpecFallback == InitFallback /\ [][NextFallback]_vars

\* ------------------------------------------------- fetchEbayGroundingData
\* labelled sections in one response text
MaxSections == 2

\* the number of characters of the atoms of the response texts
AtomLength(a) ==
  CASE a = "Price" -> 5 [] a = "rice" -> 4 [] a = "Range" -> 5
    [] a = "$50" -> 3 [] a = "$100" -> 4 [] a = "$75" -> 3 [] a = "USD" -> 3
    [] a = "Condition Summary" -> 17 [] a = "Used" -> 4 [] a = "minor wear" -> 10
    [] a = "Keywords" -> 8 [] a = "rare" -> 4 [] a = "mint" -> 4 [] a = "hi" -> 2
    [] a = "Title Examples" -> 14 [] a = "itle Examples" -> 13
    [] a = "intage" -> 6 [] a = "{ITEM}" -> 6 [] a = "Rare!" -> 5 [] a = "are" -> 3
    [] a = "No sold listings were found." -> 28
    [] a = "o sold listings were found." -> 27
    [] OTHER -> 1

\* s.length
RECURSIVE StringLength(_)
StringLength(s) == IF s = <<>> THEN 0 ELSE AtomLength(Head(s)) + StringLength(Tail(s))

\* an atom without its first character (nothing is left of one character)
WithoutFirstCharacter(a) ==
  CASE a = "Price" -> <<"rice">>
    [] a = "Title Examples" -> <<"itle Examples">>
    [] a = "No sold listings were found." -> <<"o sold listings were found.">>
    [] OTHER -> <<>>

\* the index of the first atom of text from index from on that is in set,
\* Len(text) + 1 when there is none
FirstIndex(text, from, set) ==
  IF \E j \in from..Len(text) : text[j] \in set
    THEN CHOOSE j \in from..Len(text) :
           text[j] \in set /\ \A k \in from..(j - 1) : text[k] \notin set
    ELSE Len(text) + 1

\* \s* from index i: the index of the first atom that is not white space
SkipWhiteSpace(text, i) ==
  CHOOSE j \in i..(Len(text) + 1) :
    /\ j = Len(text) + 1 \/ text[j] \notin WhiteSpace
    /\ \A k \in i..(j - 1) : text[k] \in WhiteSpace

\* \s*[:-]?\s* from index i
SkipSeparator(text, i) ==
  LET j == SkipWhiteSpace(text, i)
  IN IF j <= Len(text) /\ text[j] \in {":", "-"} THEN SkipWhiteSpace(text, j + 1) ELSE j

\* s.split(separator), the separator one of the atoms of seps
RECURSIVE Split(_, _)
Split(s, seps) ==
  LET j == FirstIndex(s, 1, seps)
  IN IF j > Len(s) THEN << s >>
     ELSE << SubSeq(s, 1, j - 1) >> \o Split(SubSeq(s, j + 1, Len(s)), seps)

\* the atoms \$?\d[\d,\.]* matches in the texts
NumberAtoms == {"$50", "$100", "$75"}

\* (price|average price|sold for|range), as the texts write them
PriceLabels == {"Price", "Range"}

\* priceMatch[2] of line 121, <<>> when there is no match: after the first
\* label that a number follows, the number, a second number if one follows
\* (after "-" or not), and USD if it follows.  A number alone matches too:
\* each number of the texts has two digits or more, and its last digit is
\* then the second \d of the pattern.
priceMatch(text) ==
  LET starts == { i \in 1..Len(text) :
                    /\ text[i] \in PriceLabels
                    /\ SkipSeparator(text, i + 1) <= Len(text)
                    /\ text[SkipSeparator(text, i + 1)] \in NumberAtoms }
  IN IF starts = {} THEN <<>>
     ELSE LET i      == CHOOSE m \in starts : \A n \in starts : m <= n
              first  == SkipSeparator(text, i + 1)
              a      == SkipWhiteSpace(text, first + 1)
              b      == IF a <= Len(text) /\ text[a] = "-" THEN SkipWhiteSpace(text, a + 1) ELSE a
              second == IF b <= Len(text) /\ text[b] \in NumberAtoms THEN b ELSE first
              c      == SkipWhiteSpace(text, second + 1)
              last   == IF c <= Len(text) /\ text[c] = "USD" THEN c ELSE second
          IN SubSeq(text, first, last)

\* match[2] of /(labels)\s*[:-]?\s*(.*?)(?=(stops|$))/is, <<>> when there is
\* no match or nothing is captured: from the first label, what follows the
\* separator up to the first stop or the end of the text
LabelledMatch(text, labels, stops) ==
  LET i == FirstIndex(text, 1, labels)
  IN IF i > Len(text) THEN <<>>
     ELSE LET start == SkipSeparator(text, i + 1)
          IN SubSeq(text, start, FirstIndex(text, start, stops) - 1)

\* s.replace(/\n/g, ' ').replace(/\s{2,}/g, ' ')
RECURSIVE OneLine(_)
OneLine(s) ==
  IF s = <<>> THEN <<>>
  ELSE IF Head(s) \in WhiteSpace
    THEN <<" ">> \o OneLine(TrimStart(Tail(s)))
    ELSE << Head(s) >> \o OneLine(Tail(s))

\* t.replace(/^['"-•]\s*/, ''): the class is the range from '"' to the
\* bullet, which has every letter, digit and sign of the texts but " " and
\* "!"; the first character goes, and the white space after it
WithoutLeadingMark(t) ==
  IF t = <<>> \/ Head(t) \in WhiteSpace \cup {"!"} THEN t
  ELSE IF WithoutFirstCharacter(Head(t)) = <<>> THEN TrimStart(Tail(t))
  ELSE WithoutFirstCharacter(Head(t)) \o Tail(t)

\* lines 113-144: the four fields of the text.  The second pattern of the
\* price (lines 124-127) needs "average price" or "median price" before a
\* number; the first pattern matches wherever it does in the texts.
extractPriceRange(text) ==
  IF priceMatch(text) # <<>> THEN Trim(priceMatch(text)) ELSE NA

extractConditionSummary(text) ==
  LET captured == LabelledMatch(text, {"Condition Summary"}, {"Keywords", "Title Patterns"})
  IN IF captured # <<>> THEN OneLine(Trim(captured)) ELSE NA

extractKeywords(text) ==
  LET captured == LabelledMatch(text, {"Keywords"}, {"Title Patterns", "Condition Summary"})
      trimmed  == [ j \in 1..Len(Split(captured, {",", "\n", "-"})) |->
                      Trim(Split(captured, {",", "\n", "-"})[j]) ]
  IN IF captured # <<>> THEN SelectSeq(trimmed, LAMBDA k : StringLength(k) > 2) ELSE <<>>

extractTitlePatterns(text) ==
  LET captured == LabelledMatch(text, {"Title Examples"}, {"Keywords", "Condition Summary"})
      trimmed  == [ j \in 1..Len(Split(captured, {"\n", ";"})) |->
                      WithoutLeadingMark(Trim(Split(captured, {"\n", ";"})[j])) ]
  IN IF captured # <<>> THEN SelectSeq(trimmed, LAMBDA t : StringLength(t) > 5) ELSE <<>>

\* lines 144-148: a source for each chunk that has a uri
mappedGroundingSources(groundingChunks) ==
  SelectSeq([ j \in 1..Len(groundingChunks) |->
                [ type  |-> "googleSearch",
                  uri   |-> IF groundingChunks[j].web = <<>> THEN <<>>
                            ELSE groundingChunks[j].web[1].uri,
                  title |-> IF groundingChunks[j].web = <<>> THEN <<>>
                            ELSE groundingChunks[j].web[1].title ] ],
            LAMBDA source : Truthy(source.uri))

\* the outcome of a call: it threw, or it returned value
Threw == [threw |-> TRUE, value |-> <<>>]

Returned(value) == [threw |-> FALSE, value |-> value]

\* fetchEbayGroundingData, given what generateContent did: it rejected
\* (response.failed), or it resolved with a response.  response.text is
\* undefined for a response without text, and text.match then throws inside
\* the try: the catch of lines 158-161 throws again.
fetchEbayGroundingData(response) ==
  IF response.failed THEN Threw
  ELSE IF ~response.text.def THEN Threw
  ELSE LET text == response.text.val
       IN Returned([ priceRange          |-> extractPriceRange(text),
                     conditionSummary    |-> extractConditionSummary(text),
                     keywords            |-> extractKeywords(text),
                     marketTitlePatterns |-> extractTitlePatterns(text),
                     groundingSources    |-> mappedGroundingSources(response.groundingChunks) ])

\* the sections a response text is written from, one to a line
TextSections ==
  { <<"Price", " ", "Range", ":", " ", "$50", " ", "-", " ", "$100">>,
    <<"Price", ":", " ", "$75", " ", "USD">>,
    <<"Condition Summary", ":", " ", "Used", ",", " ", "minor wear">>,
    <<"Keywords", ":", " ", "rare", ",", " ", "mint", ",", " ", "hi">>,
    <<"Title Examples", ":", " ", "V", "intage", " ", "{ITEM}", " ", "Rare!", ";", " ", "R", "are">>,
    <<"No sold listings were found.">> }

ResponseTexts ==
  { Join(sections, <<"\n">>) :
      sections \in UNION { [1..n -> TextSections] : n \in 0..MaxSections } }

\* response.candidates?.[0]?.groundingMetadata?.groundingChunks || []
GroundingChunkLists ==
  { <<>>,
    << [web |-> << [uri |-> <<"https://e.bay/1">>, title |-> <<"sold">>] >>] >>,
    << [web |-> <<>>] >> }

\* what generateContent does: it rejects, or it resolves with a response
\* with or without text
Responses ==
  { [failed |-> TRUE, text |-> Undefined, groundingChunks |-> <<>>] }
    \cup [ failed          : {FALSE},
           text            : {Undefined} \cup { Defined(t) : t \in ResponseTexts },
           groundingChunks : GroundingChunkLists ]

\* fetchEbayGroundingData(query), generateContent settling with response
FetchGrounding(response) ==
  /\ lastCall = PendingCall(response)
  /\ lastCall' = ServiceCall("fetchEbayGroundingData", response,
                             fetchEbayGroundingData(response).threw,
                             fetchEbayGroundingData(response).value)
  /\ UNCHANGED << component, storedListings, storedKeys >>

\* the grounding backend has settled and the text is not yet read
InitGrounding ==
  /\ Unmounted
  /\ storedListings = <<>>
  /\ storedKeys = <<>>
  /\ \E response \in Responses : lastCall = PendingCall(response)

NextGrounding == \E response \in Responses : FetchGrounding(response)

\* fetchEbayGroundingData on the responses of the grounding backend.
SpecGrounding == InitGrounding /\ [][NextGrounding]_vars

\* ------------------------------------------------------------ properties
\* the history as loadListings reads it
History == loadListings(storedListings)

\* the run r has been superseded: a later run has started
Superseded(r) == r < Len(runs)

\* C1: a run that has been superseded by a later run has no visible effect
\* when it ends: the step in which it completes or fails emits no draft,
\* leaves the error and the displayed draft as they were, and writes nothing
\* to history.
SupersededRunHasNoEffect ==
  [][ \A r \in 1..Len(runs) :
        (Superseded(r) /\ runs[r].pc \in Pending /\ runs'[r].pc \in Ended)
          => /\ emitted' = emitted
             /\ state'.error = state.error
             /\ state'.generatedDraft = state.generatedDraft
             /\ storedListings' = storedListings ]_vars

\* C2: when identification B arrives while the run of identification A is
\* still in its first stage, and both runs have completed, exactly one draft
\* has been emitted and exactly one has been persisted, both of them B's.
RapidRetriggerOneDraft ==
  ( /\ Len(runs) = 2
    /\ runs[2].rapid
    /\ runs[1].p.itemDescription # runs[2].p.itemDescription
    /\ runs[1].pc = "done"
    /\ runs[2].pc = "done"
    /\ runs[2].saves = 1 )
  => /\ Len(emitted) = 1
     /\ emitted[1].run = 2
     /\ runs[1].saves = 0
     /\ Len(History) = 1
     /\ History[1] = runs[2].draft[1]

\* the call of run r that has failed, if one has
FailedCalls(r) == { i \in 1..Len(runs[r].calls) : runs[r].calls[i].outcome = "failed" }

\* C3: when the grounding, search or drafting call of a run fails, the run
\* ends failed in that step, with a non-empty error message set, no draft
\* emitted and nothing written to history; and a failed run stays failed,
\* with no draft of its own.
FailedCallFailsRun ==
  [][ \A r \in 1..Len(runs) :
        /\ (Len(runs'[r].calls) = Len(runs[r].calls)
              /\ runs[r].calls[Len(runs[r].calls)].outcome = "pending"
              /\ runs'[r].calls[Len(runs[r].calls)].outcome = "failed")
             => /\ runs'[r].pc = "failed"
                /\ state'.error # <<>>
                /\ emitted' = emitted
                /\ currentListing' = currentListing
                /\ storedListings' = storedListings
        /\ runs[r].pc = "failed"
             => /\ runs'[r] = runs[r]
                /\ runs[r].draft = <<>>
                /\ runs[r].emits = 0
                /\ runs[r].saves = 0 ]_vars

\* a run has failed in its grounding stage and another in its drafting
\* stage, and the error of the later failure is displayed
FailedCallFailsRunWitness ==
  \E r1, r2 \in 1..Len(runs) :
    /\ runs[r1].pc = "failed"
    /\ Len(runs[r1].calls) = 1
    /\ runs[r2].pc = "failed"
    /\ Len(runs[r2].calls) = 3
    /\ runs[r2].calls[3].outcome = "failed"
    /\ state.error # <<>>
    /\ emitted = <<>>
    /\ storedListings = <<>>

\* the credential is absent, empty or only whitespace
BlankCredential(k) == ~k.def \/ \A i \in 1..Len(k.val) : k.val[i] \in WhiteSpace

\* the drafts the fallback can build for run r
FallbackDraftsOf(r) ==
  { FallbackDraft(runs[r].p, runs[r].marketData[1], runs[r].listings[1], pick) :
      pick \in TitlePicks(runs[r].marketData[1]) }

\* C4: a run whose drafting credential is absent, empty or only whitespace
\* never calls the drafting collaborator, does not fail once its grounding
\* has succeeded, and is complete with a fallback draft as soon as its
\* search has returned; a run whose credential is anything else never has a
\* fallback draft.
BlankCredentialFallsBack ==
  \A r \in 1..Len(runs) :
    IF BlankCredential(runs[r].p.chatGptApiKey)
      THEN /\ \A i \in 1..Len(runs[r].calls) : runs[r].calls[i].fn # "generateListingDraft"
           /\ runs[r].pc = "failed" => FailedCalls(r) = {1}
           /\ runs[r].listings # <<>>
                => /\ runs[r].pc = "done"
                   /\ runs[r].draft # <<>>
                   /\ runs[r].draft[1] \in FallbackDraftsOf(r)
      ELSE /\ runs[r].listings # <<>>
                => /\ Len(runs[r].calls) = 3
                   /\ runs[r].calls[3].fn = "generateListingDraft"
           /\ runs[r].draft # <<>> => runs[r].draft[1] \notin FallbackDraftsOf(r)

\* a run without a credential is complete with a fallback draft and has
\* made two calls, and a run with a credential is complete with a draft of
\* the drafting collaborator
BlankCredentialFallsBackWitness ==
  \E r1, r2 \in 1..Len(runs) :
    /\ BlankCredential(runs[r1].p.chatGptApiKey)
    /\ runs[r1].pc = "done"
    /\ Len(runs[r1].calls) = 2
    /\ runs[r1].draft[1] \in FallbackDraftsOf(r1)
    /\ ~BlankCredential(runs[r2].p.chatGptApiKey)
    /\ runs[r2].pc = "done"
    /\ runs[r2].draft[1] \notin FallbackDraftsOf(r2)

\* C5: when the drafting credential is present and the drafting call fails,
\* the run fails in that step: it builds no draft (no fallback either), the
\* displayed draft and the parent's listing stay as they were, nothing is
\* emitted and nothing is written to history.
DraftingFailureFailsRun ==
  [][ \A r \in 1..Len(runs) :
        (runs[r].pc = "chatGpt" /\ runs'[r].calls[3].outcome = "failed")
          => /\ ~BlankCredential(runs[r].p.chatGptApiKey)
             /\ runs'[r].pc = "failed"
             /\ runs'[r].draft = <<>>
             /\ runs'[r].emits = 0
             /\ runs'[r].saves = 0
             /\ state'.generatedDraft = state.generatedDraft
             /\ state'.error # <<>>
             /\ currentListing' = currentListing
             /\ emitted' = emitted
             /\ storedListings' = storedListings ]_vars

\* a run with a credential has failed in its drafting call after its
\* grounding and its search succeeded, and nothing has been emitted or saved
DraftingFailureFailsRunWitness ==
  \E r \in 1..Len(runs) :
    /\ runs[r].p.chatGptApiKey = Defined(<<"sk">>)
    /\ runs[r].pc = "failed"
    /\ FailedCalls(r) = {3}
    /\ runs[r].listings # <<>>
    /\ runs[r].draft = <<>>
    /\ \A i \in 1..Len(emitted) : emitted[i].run # r

\* the names of the collaborators in pipeline order
StageOrder == << "fetchEbayGroundingData", "fetchSoldListings", "generateListingDraft" >>

\* C6: the calls of a run are a prefix of grounding, search, drafting, each
\* made at most once; the search is called only after the grounding call
\* returned, with the run's description and, as hints, the price range, the
\* keywords and the title patterns of that run's market data; the drafting
\* call and every draft come only after the search returned.
StagesInOrder ==
  \A r \in 1..Len(runs) :
    LET calls == runs[r].calls
    IN /\ Len(calls) \in 1..3
       /\ \A i \in 1..Len(calls) : calls[i].fn = StageOrder[i]
       /\ \A i \in 1..(Len(calls) - 1) : calls[i].outcome = "ok"
       /\ Len(calls) >= 2
            => /\ runs[r].marketData # <<>>
               /\ calls[2].query = runs[r].p.itemDescription
               /\ calls[2].hints =
                    << [ marketPriceRange    |-> runs[r].marketData[1].priceRange,
                         marketKeywords      |-> runs[r].marketData[1].keywords,
                         marketTitlePatterns |-> runs[r].marketData[1].marketTitlePatterns ] >>
       /\ Len(calls) = 3 => runs[r].listings # <<>>
       /\ runs[r].draft # <<>>
            => /\ runs[r].listings # <<>>
               /\ Len(calls) >= 2
               /\ calls[2].outcome = "ok"
               /\ runs[r].draft[1].exampleSoldListings = Defined(runs[r].listings[1])

\* a run has made all three calls, its search with the hints of market data
\* that differ from the defaults
StagesInOrderWitness ==
  \E r \in 1..Len(runs) :
    /\ Len(runs[r].calls) = 3
    /\ runs[r].pc = "done"
    /\ runs[r].calls[2].hints[1].marketPriceRange = <<"$50 - $100">>
    /\ runs[r].calls[2].hints[1].marketTitlePatterns # <<>>

CompletedRunAddsOneEntry ==
  [][ \A r \in 1..Len(runs) :
        (runs[r].pc \in Pending /\ runs'[r].pc \in Ended)
          => IF runs'[r].pc = "done"
               THEN /\ emitted' = Append(emitted, [run |-> r, draft |-> runs'[r].draft[1]])
                    /\ loadListings(storedListings') = << runs'[r].draft[1] >> \o History
               ELSE /\ emitted' = emitted
                    /\ storedListings' = storedListings ]_vars

\* C8: every draft stored in history has a non-empty suggestedTitle, a
\* non-empty generatedDate and a defined exampleSoldListings, whatever runs,
\* edits, saves and clears came before.
HistoryEntriesWellFormed ==
  \A i \in 1..Len(History) :
    /\ History[i].suggestedTitle # <<>>
    /\ History[i].generatedDate # <<>>
    /\ History[i].exampleSoldListings.def

\* the entries of history that were there before the step, in the step's
\* new history (its entries but the newest)
OlderEntries(stored) == Tail(loadListings(stored))

\* C10: a step that saves the user's edit puts a new draft, the current one
\* with the five edited fields, before the entries history had, and those
\* entries are all still there, unchanged and in the same order; the current
\* draft becomes the new value.
EditSavePreservesHistory ==
  [][ (runs' = runs /\ storedListings' # storedListings /\ storedListings' # <<>>)
        => /\ OlderEntries(storedListings') = History
           /\ LET new == loadListings(storedListings')[1]
                  old == state.generatedDraft[1]
              IN /\ state.generatedDraft # <<>>
                 /\ state'.generatedDraft = <<new>>
                 /\ new.suggestedTitle = state.editableTitle
                 /\ new.itemDescription = state.editableDescription
                 /\ new.suggestedCategory = state.editableCategory
                 /\ new.suggestedPriceRange = state.editablePriceRange
                 /\ new.suggestedCondition = state.editableCondition
                 /\ new.generatedDate = old.generatedDate
                 /\ new.exampleSoldListings = old.exampleSoldListings
                 /\ new.imageUrl = old.imageUrl
                 /\ new.groundingSources = old.groundingSources ]_vars

\* history holds the draft of the run and, before it, the edited draft that
\* was saved afterwards, which is the current draft
EditSavePreservesHistoryWitness ==
  /\ Len(History) = 2
  /\ Len(runs) = 1
  /\ runs[1].pc = "done"
  /\ runs[1].saves = 1
  /\ History[2] = runs[1].draft[1]
  /\ History[1] # History[2]
  /\ state.generatedDraft = << History[1] >>
  /\ nEdits = 1

LoadedValue ==
  /\ lastCall.fn = "loadApiKeys"
  /\ storedKeys # <<>>
  /\ storedKeys[1].json = "value"

\* C13: a loadApiKeys that reads a stored object with the legacy field
\* ebayApiKey and no other field returns a credential set whose ebayAppId is
\* the legacy value and which has no ebayApiKey.
LegacyFieldMigrated ==
  ( /\ LoadedValue
    /\ ~lastCall.threw
    /\ storedKeys[1].value.type = "object"
    /\ DOMAIN storedKeys[1].value.fields = {LegacyField} )
  => /\ lastCall.result.type = "object"
     /\ "ebayAppId" \in DOMAIN lastCall.result.fields
     /\ lastCall.result.fields["ebayAppId"] = storedKeys[1].value.fields[LegacyField]
     /\ LegacyField \notin DOMAIN lastCall.result.fields

\* storage holds only the legacy field, with a key in it, and the load has
\* returned that key as ebayAppId
LegacyFieldMigratedWitness ==
  /\ LoadedValue
  /\ ~lastCall.threw
  /\ storedKeys[1].value.type = "object"
  /\ DOMAIN storedKeys[1].value.fields = {LegacyField}
  /\ storedKeys[1].value.fields[LegacyField] = JString(<<"key">>)
  /\ lastCall.result.fields["ebayAppId"] = JString(<<"key">>)

\* storage holds no credentials, or the JSON text of an object whose fields
\* are strings (legacy-shaped, partial or complete)
StoredCredentials ==
  \/ storedKeys = <<>>
  \/ /\ storedKeys[1].json = "value"
     /\ storedKeys[1].value.type = "object"

\* C14: whatever credentials storage holds, loadApiKeys returns an object in
\* which chatGptApiKey, ebayAppId, ebayClientSecret and ebayOAuthToken are
\* all present and strings.
LoadedFieldsAreStrings ==
  (lastCall.fn = "loadApiKeys" /\ StoredCredentials)
    => /\ lastCall.result.type = "object"
       /\ \A k \in ApiKeyFields :
            /\ k \in DOMAIN lastCall.result.fields
            /\ lastCall.result.fields[k].type = "string"

\* C15: when the read of storage throws, or the stored text is not JSON, or
\* it is the JSON text of a value that is not an object, loadApiKeys returns
\* the default credential set.
LoadDegradesToDefaults ==
  ( /\ lastCall.fn = "loadApiKeys"
    /\ \/ lastCall.threw
       \/ /\ storedKeys # <<>>
          /\ \/ storedKeys[1].json = "invalid"
             \/ /\ storedKeys[1].json = "value"
                /\ storedKeys[1].value.type # "object" )
  => lastCall.result = DefaultApiKeys

\* the prices written in a price-range string
PricesOf(pieces) == SelectSeq(pieces, LAMBDA x : x \in WrittenPrices)

OnePriceGivesRangeAround ==
  (lastCall.fn = "parsePriceRange" /\ Len(PricesOf(lastCall.arg)) = 1)
    => LET p     == PricesOf(lastCall.arg)[1].amount
           range == lastCall.result
       IN /\ Equal(range.avg, p)
          /\ Equal(Times(range.min, Number(10, 1)), Times(p, Number(8, 1)))
          /\ Equal(Times(range.max, Number(10, 1)), Times(p, Number(12, 1)))

\* "around $1,200 USD" has been parsed: avg is 1200, min 960, max 1440
OnePriceGivesRangeAroundWitness ==
  /\ lastCall.fn = "parsePriceRange"
  /\ Len(lastCall.arg) = 3
  /\ PricesOf(lastCall.arg) =
       << [text |-> <<"$", "1", ",", "2", "0", "0">>, amount |-> Number(1200, 1)] >>
  /\ Equal(lastCall.result.avg, Number(1200, 1))
  /\ Equal(lastCall.result.min, Number(960, 1))
  /\ Equal(lastCall.result.max, Number(1440, 1))

\* C18: for the empty list getMarketData returns the price range "N/A", the
\* condition summary "N/A" and no keywords.
EmptyListGivesNA ==
  (lastCall.fn = "getMarketData" /\ lastCall.arg = <<>>)
    => /\ lastCall.result.marketPriceRange = <<"N/A">>
       /\ lastCall.result.marketConditionSummary = <<"N/A">>
       /\ lastCall.result.marketKeywords = <<>>

\* getMarketData has been called with the empty list and has answered
EmptyListGivesNAWitness ==
  /\ lastCall.fn = "getMarketData"
  /\ lastCall.arg = <<>>
  /\ DOMAIN lastCall.result = {"marketPriceRange", "marketConditionSummary", "marketKeywords"}

\* The price texts of the items that state an amount, each with the amount
\* and the amount written with two decimals.
StatedAmounts ==
  { [price |-> <<"U", "S", " ", "$", "5", "0">>, amount |-> Number(50, 1),
      fixed |-> <<"5", "0", ".", "0", "0">>],
    [price |-> <<"U", "S", " ", "$", "1", "5", "0">>, amount |-> Number(150, 1),
      fixed |-> <<"1", "5", "0", ".", "0", "0">>],
    [price |-> <<"U", "S", " ", "$", "9", "0">>, amount |-> Number(90, 1),
      fixed |-> <<"9", "0", ".", "0", "0">>],
    [price |-> <<"$", "1", ",", "2", "0", "0", ".", "5", "0">>, amount |-> Number(12005, 10),
      fixed |-> <<"1", "2", "0", "0", ".", "5", "0">>],
    [price |-> <<"U", "S", " ", "$", "0", ".", "0", "0">>, amount |-> Number(0, 1),
      fixed |-> <<"0", ".", "0", "0">>] }

\* the stated amounts of the prices of a list
AmountsOf(items) ==
  { a \in StatedAmounts : \E i \in 1..Len(items) : items[i].price = a.price }

\* C19: for a non-empty list the price range is "N/A" exactly when no
\* price of the list states an amount, and otherwise it is
\* "$<min> - $<max> USD", the smallest and the largest amount with two
\* decimals.
PriceRangeIsMinToMax ==
  (lastCall.fn = "getMarketData" /\ lastCall.arg # <<>>)
    => IF AmountsOf(lastCall.arg) = {}
         THEN lastCall.result.marketPriceRange = <<"N/A">>
         ELSE \E lo, hi \in AmountsOf(lastCall.arg) :
                /\ \A a \in AmountsOf(lastCall.arg) :
                     ~Less(a.amount, lo.amount) /\ ~Less(hi.amount, a.amount)
                /\ lastCall.result.marketPriceRange =
                     <<"$">> \o lo.fixed \o <<" ", "-", " ", "$">> \o hi.fixed
                       \o <<" ", "U", "S", "D">>

\* how many items of the list have the condition
ConditionCount(items, condition) ==
  Cardinality({ i \in 1..Len(items) : items[i].condition = condition })

\* the index of the first item of the list with the condition
FirstSeen(items, condition) ==
  CHOOSE i \in 1..Len(items) :
    items[i].condition = condition /\ \A j \in 1..(i - 1) : items[j].condition # condition

\* C20: when items of the list have a condition, the condition summary is a
\* condition no other occurs more often than, and of the conditions that
\* occur as often it is the one seen first in the list.
ConditionSummaryIsMostFrequent ==
  ( /\ lastCall.fn = "getMarketData"
    /\ \E i \in 1..Len(lastCall.arg) : lastCall.arg[i].condition # <<>> )
  => LET items   == lastCall.arg
         summary == lastCall.result.marketConditionSummary
     IN /\ \E i \in 1..Len(items) : items[i].condition = summary
        /\ \A i \in 1..Len(items) :
             items[i].condition # <<>>
               => /\ ConditionCount(items, items[i].condition) <= ConditionCount(items, summary)
                  /\ ConditionCount(items, items[i].condition) = ConditionCount(items, summary)
                       => FirstSeen(items, summary) <= i

\* The titles of the items, each with its words in lower case.
TitleWords ==
  { [title |-> <<"R", "a", "r", "e", " ", "l", "e", "n", "s">>,
      words |-> << <<"r", "a", "r", "e">>, <<"l", "e", "n", "s">> >>],
    [title |-> <<"t", "h", "e", " ", "L", "e", "n", "s", " ", "5", "0", "m", "m">>,
      words |-> << <<"t", "h", "e">>, <<"l", "e", "n", "s">>, <<"5", "0", "m", "m">> >>],
    [title |-> <<"L", "e", "n", "s", " ", "f", "o", "r", " ", "f", "i", "l", "m">>,
      words |-> << <<"l", "e", "n", "s">>, <<"f", "o", "r">>, <<"f", "i", "l", "m">> >>],
    [title |-> <<"r", "a", "r", "e", " ", "1", "0", "0", " ", "l", "e", "n", "s">>,
      words |-> << <<"r", "a", "r", "e">>, <<"1", "0", "0">>, <<"l", "e", "n", "s">> >>],
    [title |-> <<"F", "i", "l", "m", " ", "1", "0", "0">>,
      words |-> << <<"f", "i", "l", "m">>, <<"1", "0", "0">> >>],
    [title |-> <<"l", "e", "n", "s">>,
      words |-> << <<"l", "e", "n", "s">> >>],
    [title |-> <<"F", "r", "e", "e", " ", "f", "i", "l", "m">>,
      words |-> << <<"f", "r", "e", "e">>, <<"f", "i", "l", "m">> >>] }

\* the words of the titles of a list, in the order of the list
RECURSIVE WordsOf(_)
WordsOf(items) ==
  IF items = <<>> THEN <<>>
  ELSE (CHOOSE t \in TitleWords : t.title = items[1].title).words \o WordsOf(Tail(items))

\* the words that are candidates for keywords: longer than two characters
\* and not one of a, an, the, for, and, with, in, of
KeywordCandidates(items) ==
  SelectSeq(WordsOf(items),
            LAMBDA w : Len(w) > 2
                       /\ w \notin { <<"a">>, <<"a", "n">>, <<"t", "h", "e">>, <<"f", "o", "r">>,
                                     <<"a", "n", "d">>, <<"w", "i", "t", "h">>, <<"i", "n">>,
                                     <<"o", "f">> })

WordCount(words, w) == Cardinality({ j \in 1..Len(words) : words[j] = w })

WordFirstSeen(words, w) ==
  CHOOSE j \in 1..Len(words) : words[j] = w /\ \A k \in 1..(j - 1) : words[k] # w

\* v ranks before w: it occurs more often, or as often and was seen first
RanksBefore(words, v, w) ==
  \/ WordCount(words, v) > WordCount(words, w)
  \/ /\ WordCount(words, v) = WordCount(words, w)
     /\ WordFirstSeen(words, v) < WordFirstSeen(words, w)

\* C21: the keyword list is the at most five most frequent candidate words
\* of all titles, by descending count, words of equal count in the order
\* they were first seen, words made only of digits included.
KeywordsAreTopFiveByCount ==
  lastCall.fn = "getMarketData"
    => LET words      == KeywordCandidates(lastCall.arg)
           candidates == { words[j] : j \in 1..Len(words) }
           keywords   == lastCall.result.marketKeywords
       IN /\ Len(keywords) = IF Cardinality(candidates) < 5 THEN Cardinality(candidates) ELSE 5
          /\ \A j \in 1..Len(keywords) : keywords[j] \in candidates
          /\ \A j, k \in 1..Len(keywords) : j < k => RanksBefore(words, keywords[j], keywords[k])
          /\ \A w \in candidates :
               (\A j \in 1..Len(keywords) : keywords[j] # w)
                 => \A j \in 1..Len(keywords) : RanksBefore(words, keywords[j], w)

\* the rearrangements of a list
Rearrangements(items) ==
  { [ j \in 1..Len(items) |-> items[f[j]] ] :
      f \in { g \in [1..Len(items) -> 1..Len(items)] :
                \A j, k \in 1..Len(items) : g[j] = g[k] => j = k } }

\* two conditions of the list occur equally often
ConditionsTie(items) ==
  \E j, k \in 1..Len(items) :
    /\ items[j].condition # <<>> /\ items[k].condition # <<>>
    /\ items[j].condition # items[k].condition
    /\ ConditionCount(items, items[j].condition) = ConditionCount(items, items[k].condition)

\* two candidate words of the titles occur equally often
KeywordsTie(items) ==
  LET words == KeywordCandidates(items)
  IN \E j, k \in 1..Len(words) :
       words[j] # words[k] /\ WordCount(words, words[j]) = WordCount(words, words[k])

\* C22: getMarketData of any rearrangement of a list gives the same price
\* range, the same condition summary unless two conditions occur equally
\* often, and the same keyword list unless two candidate words occur equally
\* often.
MarketDataOrderIndependent ==
  lastCall.fn = "getMarketData"
    => \A rearranged \in Rearrangements(lastCall.arg) :
         /\ getMarketData(rearranged).marketPriceRange = lastCall.result.marketPriceRange
         /\ ~ConditionsTie(lastCall.arg)
              => getMarketData(rearranged).marketConditionSummary
                   = lastCall.result.marketConditionSummary
         /\ ~KeywordsTie(lastCall.arg)
              => getMarketData(rearranged).marketKeywords = lastCall.result.marketKeywords

\* a list of different items, with different amounts and with several
\* candidate words none of which tie, has been aggregated
MarketDataOrderIndependentWitness ==
  /\ lastCall.fn = "getMarketData"
  /\ \E rearranged \in Rearrangements(lastCall.arg) : rearranged # lastCall.arg
  /\ \E a, b \in AmountsOf(lastCall.arg) : Less(a.amount, b.amount)
  /\ Len(lastCall.result.marketKeywords) > 1
  /\ ~KeywordsTie(lastCall.arg)
  /\ ~ConditionsTie(lastCall.arg)

\* the first comma- or dash-delimited clause of a text
FirstClause(text) ==
  IF \E j \in 1..Len(text) : text[j] \in {",", "-"}
    THEN Trim(SubSeq(text, 1,
                     (CHOOSE j \in 1..Len(text) :
                        text[j] \in {",", "-"} /\ \A k \in 1..(j - 1) : text[k] \notin {",", "-"}) - 1))
    ELSE text

\* the item description as given, and as the draft names it (its first
\* line without the label)
DescriptionTexts(itemDescription) ==
  { itemDescription, primaryItemDescription(itemDescription) }

\* C23: the title of the fallback draft is, when there are title patterns,
\* one of them with its placeholder replaced by the item description, and
\* otherwise "<description> - <first clause of the condition summary>
\* Condition!".
FallbackTitleFromPatternOrCondition ==
  lastCall.fn = "fallbackDraft"
    => LET input    == lastCall.arg
           patterns == input.marketData.marketTitlePatterns
           title    == lastCall.result.suggestedTitle
       IN \E description \in DescriptionTexts(input.props.itemDescription) :
            IF patterns # <<>>
              THEN \E k \in 1..Len(patterns) :
                     title = ReplaceFirst(patterns[k], "{ITEM}", description)
              ELSE title = description \o <<" - ">>
                             \o FirstClause(input.marketData.conditionSummary)
                             \o <<" Condition!">>

\* sub is a substring of text
Contains(text, sub) ==
  \E j \in 0..(Len(text) - Len(sub)) : SubSeq(text, j + 1, j + Len(sub)) = sub

\* C24 (as stated): the description of the fallback draft contains the
\* identification text, the condition summary and every keyword.
FallbackDescriptionContainsInputs ==
  lastCall.fn = "fallbackDraft"
    => LET input == lastCall.arg
           text  == lastCall.result.itemDescription
       IN /\ Contains(text, input.props.itemDescription)
          /\ Contains(text, input.marketData.conditionSummary)
          /\ \A k \in 1..Len(input.marketData.keywords) :
               Contains(text, input.marketData.keywords[k])

\* C24: the description of the fallback draft contains the first line of
\* the identification text without its label "Item:" and trimmed, its
\* other lines trimmed, the condition summary and every keyword; it
\* contains the identification text itself when that is one trimmed line
\* without the label.
FallbackDescriptionContainsParts ==
  lastCall.fn = "fallbackDraft"
    => LET input       == lastCall.arg
           description == input.props.itemDescription
           text        == lastCall.result.itemDescription
       IN /\ Contains(text, Trim(ReplaceFirst(FirstLine(description), "Item:", <<>>)))
          /\ Contains(text, Trim(RestLines(description)))
          /\ (\A j \in 1..Len(description) : description[j] \notin {"Item:", "\n"})
               /\ Trim(description) = description
               => Contains(text, description)
          /\ Contains(text, input.marketData.conditionSummary)
          /\ \A k \in 1..Len(input.marketData.keywords) :
               Contains(text, input.marketData.keywords[k])

\* a fallback draft has been built from a labelled description of two
\* lines, a condition summary and the keywords rare and mint
FallbackDescriptionContainsPartsWitness ==
  /\ lastCall.fn = "fallbackDraft"
  /\ lastCall.arg.props.itemDescription = <<"Item:", " ", "lens", "\n", "boxed">>
  /\ lastCall.arg.marketData.conditionSummary = <<"Used", ",", " ", "minor wear">>
  /\ lastCall.arg.marketData.keywords = << <<"rare">>, <<"mint">> >>
  /\ Contains(lastCall.result.itemDescription, <<"rare">>)
  /\ Contains(lastCall.result.itemDescription, <<"mint">>)
  /\ Contains(lastCall.result.itemDescription, <<"lens">>)
  /\ Contains(lastCall.result.itemDescription, <<"boxed">>)

\* C25: the price range of the fallback draft is the market data's price
\* range when that is not the sentinel "N/A", and otherwise the price range
\* getMarketData derives from the comparable items.
FallbackPriceRangeFromMarketOrItems ==
  lastCall.fn = "fallbackDraft"
    => LET input == lastCall.arg
       IN lastCall.result.suggestedPriceRange
            = IF input.marketData.priceRange # <<"N/A">>
                THEN input.marketData.priceRange
                ELSE getMarketData(input.listings).marketPriceRange

\* C26: the condition of the fallback draft is the first comma- or
\* dash-delimited clause of the market data's condition summary, or "Used"
\* when there is none, and its example sold listings are the comparable
\* items the search returned, unmodified.
FallbackConditionIsFirstClause ==
  lastCall.fn = "fallbackDraft"
    => LET input == lastCall.arg
       IN /\ lastCall.result.suggestedCondition
               = IF input.marketData.conditionSummary # <<"N/A">>
                   THEN FirstClause(input.marketData.conditionSummary)
                   ELSE <<"Used">>
          /\ lastCall.result.exampleSoldListings = Defined(input.listings)

\* the text has one of the labels
HasLabel(text, labels) == \E j \in 1..Len(text) : text[j] \in labels

\* C27: for every response obtained without a network error, with text or
\* without, fetchEbayGroundingData does not throw (the run does not fail at
\* its grounding stage), and it returns "N/A" for the price range and the
\* condition summary and the empty list for the keywords and the title
\* patterns when the text has no label of theirs.
GroundingExtractionNeverFails ==
  (lastCall.fn = "fetchEbayGroundingData" /\ ~lastCall.arg.failed)
    => LET text == IF lastCall.arg.text.def THEN lastCall.arg.text.val ELSE <<>>
       IN /\ ~lastCall.threw
          /\ ~HasLabel(text, {"Price", "Range"}) => lastCall.result.priceRange = <<"N/A">>
          /\ ~HasLabel(text, {"Condition Summary"})
               => lastCall.result.conditionSummary = <<"N/A">>
          /\ ~HasLabel(text, {"Keywords"}) => lastCall.result.keywords = <<>>
          /\ ~HasLabel(text, {"Title Examples"}) => lastCall.result.marketTitlePatterns = <<>>

\* the stage-loading flags that are true
LoadingFlags(st) ==
  { f \in {"isLoadingGrounding", "isLoadingSoldListings", "isLoadingChatGpt"} : st[f] }

\* C28: while one run is the only run, at most one of the three loading
\* flags is true; the grounding flag becomes true only when none was true,
\* the search flag only when the grounding flag was true and the drafting
\* flag only when the search flag was true; and when the run has ended,
\* completed or failed, all three are false.
SingleRunLoadingFlags ==
  [][ Len(runs') = 1
        => /\ Cardinality(LoadingFlags(state')) <= 1
           /\ runs'[1].pc \in Ended => LoadingFlags(state') = {}
           /\ (~state.isLoadingGrounding /\ state'.isLoadingGrounding)
                => LoadingFlags(state) = {}
           /\ (~state.isLoadingSoldListings /\ state'.isLoadingSoldListings)
                => state.isLoadingGrounding
           /\ (~state.isLoadingChatGpt /\ state'.isLoadingChatGpt)
                => state.isLoadingSoldListings ]_vars

\* the one run has gone through its three stages and has ended, and a flag
\* is no longer true
SingleRunLoadingFlagsWitness ==
  /\ Len(runs) = 1
  /\ runs[1].pc \in Ended
  /\ Len(runs[1].calls) = 3
  /\ LoadingFlags(state) = {}

\* C29: while a run is in flight a loading flag is true and no error and no
\* draft is displayed.
InFlightRunKeepsLoading ==
  (\E r \in 1..Len(runs) : runs[r].pc \in Pending)
    => /\ LoadingFlags(state) # {}
       /\ state.error = <<>>
       /\ state.generatedDraft = <<>>

\* C30: when the storage throws in the save of a run's draft (the run hands
\* its draft over and its save does not take place), the stored history
\* stays as it was, the run is completed, its draft is emitted and
\* displayed, and no error is set.
SaveFailureIsSilent ==
  [][ \A r \in 1..Len(runs) :
        (runs'[r].emits = runs[r].emits + 1 /\ runs'[r].saves = runs[r].saves)
          => /\ storedListings' = storedListings
             /\ runs'[r].pc = "done"
             /\ emitted' = Append(emitted, [run |-> r, draft |-> runs'[r].draft[1]])
             /\ state'.generatedDraft = runs'[r].draft
             /\ state'.error = state.error ]_vars

\* a run is completed, its draft emitted, and nothing was stored
SaveFailureIsSilentWitness ==
  \E r \in 1..Len(runs) :
    /\ runs[r].pc = "done"
    /\ runs[r].emits = 1
    /\ runs[r].saves = 0
    /\ \E e \in 1..Len(emitted) : emitted[e] = [run |-> r, draft |-> runs[r].draft[1]]
    /\ storedListings = <<>>

====
